---- MODULE Spec2Model ----
(***************************************************************************)
(* MoodPad: the entry store (js/storage.js), the CSV import, the tags, the  *)
(* weekly insights, the year in review, the reminder and the theme         *)
(* (js/features.js), the statistics (js/stats.js) and the mood picker      *)
(* (js/app.js), as a state machine over the keys of localStorage, the      *)
(* browser's clock and the open document.                                  *)
(*                                                                         *)
(* Text.  A JavaScript string is a sequence of symbols.  A symbol is a     *)
(* single character ("a", ",", "\"", "\n", " "), or a whole date text or   *)
(* emoji kept as one symbol: the modelled code never looks inside those    *)
(* (it compares them with ===, hands them to new Date, or copies them).    *)
(***************************************************************************)
EXTENDS Integers, Sequences, FiniteSets, TLC

VARIABLES
    storage,    \* what localStorage holds under STORAGE_KEY
    mode,       \* how localStorage behaves: "ok", "quota" or "disabled"
    reading,    \* the file a FileReader of handleFileImport is reading, if any
    ret,        \* the last call: its name, arguments, error and return value
    clock,      \* the browser's clock: today's local calendar day, the time zone
                \* (and the local hour, where the reminder is modelled)
    prefs,      \* what localStorage holds under THEME_KEY and REMINDER_KEY
    page        \* the open document: app.js's variables, its timers, what it shows

vars == <<storage, mode, reading, ret, clock, prefs, page>>

(***************************************************************************)
(* Bounds                                                                  *)
(***************************************************************************)
NumDates == 2       \* calendar dates used where entries differ in every field
NumOrderDates == 4  \* calendar dates used where only the order of entries matters
MaxRows == 2        \* data rows of an imported CSV text
MaxCols == 2        \* columns of the header of an imported CSV text
NumMonthDates == 4  \* calendar dates of the collections the monthly statistics read
NumStreakDates == 6 \* dates of the collections the streaks and the trend read
MaxTrendDays == 3   \* the greatest number of days asked of getTrendData
NumInsightDates == 9 \* dates of the collections the weekly insights read
NumTags == 6            \* distinct tags a user has typed
NumTagDates == 3        \* dates of the tagged collections
NumTagArgs == 2         \* tags given to addTagToMood and removeTagFromMood
MaxReminderDays == 2    \* days the reminder's clock runs through
MaxTimers == 2          \* timers a document holds at once

(***************************************************************************)
(* Text helpers: String.prototype.trim, split, includes, toLowerCase       *)
(***************************************************************************)
Str(c) == <<c>>

Whitespace == {" ", "\n", "\t"}

RECURSIVE TrimStart(_)
TrimStart(s) ==
    IF s = <<>> THEN <<>>
    ELSE IF Head(s) \in Whitespace THEN TrimStart(Tail(s))
    ELSE s

RECURSIVE TrimEnd(_)
TrimEnd(s) ==
    IF s = <<>> THEN <<>>
    ELSE IF s[Len(s)] \in Whitespace THEN TrimEnd(SubSeq(s, 1, Len(s) - 1))
    ELSE s

Trim(s) == TrimEnd(TrimStart(s))

\* s.split(sep) for a one-character separator: always at least one piece.
RECURSIVE SplitFrom(_, _, _, _)
SplitFrom(s, sep, i, current) ==
    IF i > Len(s) THEN <<current>>
    ELSE IF s[i] = sep THEN <<current>> \o SplitFrom(s, sep, i + 1, <<>>)
    ELSE SplitFrom(s, sep, i + 1, Append(current, s[i]))

Split(s, sep) == SplitFrom(s, sep, 1, <<>>)

\* pieces.join(sep)
RECURSIVE Join(_, _)
Join(pieces, sep) ==
    IF pieces = <<>> THEN <<>>
    ELSE IF Len(pieces) = 1 THEN pieces[1]
    ELSE pieces[1] \o <<sep>> \o Join(Tail(pieces), sep)

\* s.includes(sub): sub occurs in s as a contiguous run
Includes(s, sub) ==
    \E i \in 1..(Len(s) - Len(sub) + 1) : SubSeq(s, i, i + Len(sub) - 1) = sub

LowerChar(c) ==
    CASE c = "D" -> "d"
      [] c = "E" -> "e"
      [] c = "N" -> "n"
      [] c = "M" -> "m"
      [] c = "U" -> "u"
      [] OTHER -> c

ToLowerCase(s) == [i \in 1..Len(s) |-> LowerChar(s[i])]

\* array.indexOf(x), 1-based; 0 stands for JavaScript's -1
IndexOf(seq, x) ==
    IF \E i \in 1..Len(seq) : seq[i] = x
    THEN CHOOSE i \in 1..Len(seq) : seq[i] = x /\ \A j \in 1..(i - 1) : seq[j] # x
    ELSE 0

(***************************************************************************)
(* Dates: new Date("YYYY-MM-DD") is UTC midnight of that calendar day.     *)
(***************************************************************************)
DateList ==
    << "2024-02-29", "2024-03-01", "2023-12-31", "2024-01-01", "2024-02-28",
       "2024-03-02", "2024-02-27", "2024-02-26", "2024-02-25", "2024-02-24" >>

DateYMD(atom) ==
    CASE atom = "2024-02-29" -> <<2024, 2, 29>>
      [] atom = "2024-03-01" -> <<2024, 3, 1>>
      [] atom = "2023-12-31" -> <<2023, 12, 31>>
      [] atom = "2024-01-01" -> <<2024, 1, 1>>
      [] atom = "2024-02-28" -> <<2024, 2, 28>>
      [] atom = "2024-03-02" -> <<2024, 3, 2>>
      [] atom = "2024-02-27" -> <<2024, 2, 27>>
      [] atom = "2024-02-26" -> <<2024, 2, 26>>
      [] atom = "2024-02-25" -> <<2024, 2, 25>>
      [] atom = "2024-02-24" -> <<2024, 2, 24>>
      [] atom = "2024-03" -> <<2024, 3, 1>>

\* days from 1970-01-01 to the civil date y-m-d (proleptic Gregorian)
DaysFromCivil(y, m, d) ==
    LET yy == IF m <= 2 THEN y - 1 ELSE y
        era == yy \div 400
        yoe == yy - era * 400
        mp == IF m > 2 THEN m - 3 ELSE m + 9
        doy == (153 * mp + 2) \div 5 + d - 1
        doe == yoe * 365 + yoe \div 4 - yoe \div 100 + doy
    IN era * 146097 + doe - 719468

\* A text that is no calendar date and that new Date() accepts: the
\* year-and-month form of the date-time string format, read as the first
\* day of the month.
YearMonthText == Str("2024-03")

\* dateStr is the YYYY-MM-DD text of a day of the calendar
IsCalendarDate(dateStr) ==
    Len(dateStr) = 1 /\ \E i \in 1..Len(DateList) : DateList[i] = dateStr[1]

\* does new Date(dateStr) give a valid Date?
IsDateText(dateStr) == IsCalendarDate(dateStr) \/ dateStr = YearMonthText

\* new Date(dateStr).getTime(), in days, of a valid date text
DateValue(dateStr) ==
    LET ymd == DateYMD(dateStr[1]) IN DaysFromCivil(ymd[1], ymd[2], ymd[3])

Dates == {Str(DateList[i]) : i \in 1..NumDates}

OrderDates == {Str(DateList[i]) : i \in 1..NumOrderDates}

(***************************************************************************)
(* The clock.  A Date is an instant, counted here in hours from            *)
(* 1970-01-01T00:00Z.  new Date("YYYY-MM-DD") is midnight UTC of that day; *)
(* getFullYear, getMonth, getDate, getDay, setDate and setHours work on    *)
(* the local time, tz hours ahead of UTC (a fixed offset: no daylight      *)
(* saving change in the days of the model); toISOString gives the UTC day. *)
(***************************************************************************)
\* new Date(dateStr).getTime() of a valid date text
ParseDate(dateStr) == 24 * DateValue(dateStr)

\* the local calendar day (in days from 1970-01-01) the instant t falls in
LocalDay(t, tz) == (t + tz) \div 24

\* d.setHours(0, 0, 0, 0): the local midnight of the local day of t
SetHoursZero(t, tz) == 24 * LocalDay(t, tz) - tz

\* d.setDate(d.getDate() - n): the same local time n days earlier
MinusDays(t, n) == t - 24 * n

\* new Date() then setHours(0, 0, 0, 0): local midnight of today
TodayMidnight(c) == 24 * c.today - c.tz

\* the civil date <<y, m, d>> of a day counted from 1970-01-01
CivilFromDays(z) ==
    LET zz == z + 719468
        era == zz \div 146097
        doe == zz - era * 146097
        yoe == (doe - doe \div 1460 + doe \div 36524 - doe \div 146096) \div 365
        doy == doe - (365 * yoe + yoe \div 4 - yoe \div 100)
        mp == (5 * doy + 2) \div 153
        d == doy - (153 * mp + 2) \div 5 + 1
        m == IF mp < 10 THEN mp + 3 ELSE mp - 9
    IN <<(yoe + era * 400) + (IF m <= 2 THEN 1 ELSE 0), m, d>>

\* d.getFullYear(), d.getMonth() (0 for January), d.getDay() (0 for Sunday)
GetFullYear(t, tz) == CivilFromDays(LocalDay(t, tz))[1]

GetMonth(t, tz) == CivilFromDays(LocalDay(t, tz))[2] - 1

GetDay(t, tz) == (LocalDay(t, tz) + 4) % 7

\* d.toISOString().split('T')[0]: the YYYY-MM-DD text of the UTC day of t
ISODate(t) ==
    LET ymd == CivilFromDays(t \div 24)
    IN Str(CHOOSE atom \in {DateList[i] : i \in 1..Len(DateList)} : DateYMD(atom) = ymd)

\* The time zones of the model: New York in winter, UTC, Tokyo.
TimeZones == {0 - 5, 0, 9}


(***************************************************************************)
(* The value of localStorage[STORAGE_KEY] and what JSON.parse makes of it. *)
(*   kind "absent"       no such key (getItem gives null)                  *)
(*        "empty"        the empty text                                    *)
(*        "unparseable"  text JSON.parse rejects                           *)
(*        "null"         the text null                                     *)
(*        "object"       the text of a JSON object, {}                     *)
(*        "array"        JSON.stringify of the sequence moods              *)
(***************************************************************************)
Stored(kind, moods) == [kind |-> kind, moods |-> moods]

Absent == Stored("absent", <<>>)

\* What a call leaves in ret.
Returned(op, args, value) == [op |-> op, args |-> args, error |-> "none", value |-> value]

Threw(op, args, error) == [op |-> op, args |-> args, error |-> error, value |-> <<>>]

\* localStorage.getItem / setItem / removeItem throw in these modes
GetItemFails == mode = "disabled"

SetItemFails == mode \in {"quota", "disabled"}

RemoveItemFails == mode = "disabled"

\* getAllMoods(): [kind, items]; kind "array" is a sequence, "null" and
\* "object" are what JSON.parse returned for such text.
getAllMoods(st) ==
    IF GetItemFails THEN [kind |-> "array", items |-> <<>>]
    ELSE IF st.kind \in {"absent", "empty"} THEN [kind |-> "array", items |-> <<>>]
    ELSE IF st.kind = "unparseable" THEN [kind |-> "array", items |-> <<>>]
    ELSE [kind |-> st.kind, items |-> st.moods]

\* saveMoods(moods): the storage afterwards
saveMoods(st, moods) ==
    IF SetItemFails THEN st ELSE Stored("array", moods)

\* moods.findIndex(m => m.date === date), 1-based; 0 stands for -1
FindIndex(moods, date) ==
    IF \E i \in 1..Len(moods) : moods[i].date = date
    THEN CHOOSE i \in 1..Len(moods) :
            moods[i].date = date /\ \A j \in 1..(i - 1) : moods[j].date # date
    ELSE 0

\* The comparator of moods.sort: negative puts a first.
CompareMoods_Ascending(a, b) == DateValue(a.date) - DateValue(b.date)

CompareMoods(a, b) == DateValue(b.date) - DateValue(a.date)

\* Array.prototype.sort is stable: m goes after every element that does not
\* compare greater than it.
RECURSIVE InsertSorted(_, _)
InsertSorted(sorted, m) ==
    IF sorted = <<>> THEN <<m>>
    ELSE IF CompareMoods(Head(sorted), m) <= 0
         THEN <<Head(sorted)>> \o InsertSorted(Tail(sorted), m)
         ELSE <<m>> \o sorted

RECURSIVE SortMoods(_)
SortMoods(moods) ==
    IF moods = <<>> THEN <<>>
    ELSE InsertSorted(SortMoods(SubSeq(moods, 1, Len(moods) - 1)), moods[Len(moods)])

\* The tags argument of saveMood: given (an array) or left at its default null.
TagsArg(value) == [given |-> TRUE, value |-> value]

NoTagsArg == [given |-> FALSE, value |-> <<>>]

MoodTags_DropExisting(tags, moods, existingIndex) ==
    IF tags.given THEN tags.value ELSE <<>>

\* tags !== null ? tags : (existingMood?.tags || [])
MoodTags(tags, moods, existingIndex) ==
    IF tags.given THEN tags.value
    ELSE IF existingIndex > 0 THEN moods[existingIndex].tags
    ELSE <<>>

MoodEntry(date, emoji, note, tags) ==
    [date |-> date, emoji |-> emoji, note |-> note, tags |-> tags]

PutEntry_AlwaysPush(moods, existingIndex, moodEntry) == Append(moods, moodEntry)

\* moods[existingIndex] = moodEntry, or moods.push(moodEntry)
PutEntry(moods, existingIndex, moodEntry) ==
    IF existingIndex > 0 THEN [moods EXCEPT ![existingIndex] = moodEntry]
    ELSE Append(moods, moodEntry)

\* saveMood(date, emoji, note, tags) on storage st:
\* [storage, error, value] with value the entry it returns.
saveMood(st, date, emoji, note, tags) ==
    LET all == getAllMoods(st) IN
    IF all.kind # "array"
    THEN [storage |-> st, error |-> "TypeError", value |-> <<>>]
    ELSE LET moods == all.items
             existingIndex == FindIndex(moods, date)
             moodEntry == MoodEntry(date, emoji, Trim(note),
                                    MoodTags(tags, moods, existingIndex))
             sorted == SortMoods(PutEntry(moods, existingIndex, moodEntry))
         IN [storage |-> saveMoods(st, sorted), error |-> "none", value |-> moodEntry]

\* getMood(date): [found, entry] on an array; found = FALSE stands for null
FindMood(moods, date) ==
    LET i == FindIndex(moods, date) IN
    IF i > 0 THEN [found |-> TRUE, entry |-> moods[i]]
    ELSE [found |-> FALSE, entry |-> <<>>]

FilterOut_KeepOnly(moods, date) == SelectSeq(moods, LAMBDA m : m.date = date)

\* moods.filter(m => m.date !== date)
FilterOut(moods, date) == SelectSeq(moods, LAMBDA m : m.date # date)

\* clearAll(): localStorage.removeItem(STORAGE_KEY), with no try around it
clearAll(st) ==
    IF RemoveItemFails THEN [storage |-> st, error |-> "SecurityError"]
    ELSE [storage |-> Absent, error |-> "none"]

(***************************************************************************)
(* CSV export: exportToCSV                                                 *)
(***************************************************************************)
Quote == "\""

HeaderRow == <<"D", "a", "t", "e", ",", "E", "m", "o", "j", "i", ",", "N", "o", "t", "e">>

EscapeQuotes_Single(note) == note

\* note.replace(/"/g, '""')
RECURSIVE EscapeQuotes(_)
EscapeQuotes(note) ==
    IF note = <<>> THEN <<>>
    ELSE IF Head(note) = Quote THEN <<Quote, Quote>> \o EscapeQuotes(Tail(note))
    ELSE <<Head(note)>> \o EscapeQuotes(Tail(note))

\* [m.date, m.emoji, `"${(m.note || '').replace(/"/g, '""')}"`].join(',')
CsvRow(m) ==
    m.date \o <<",">> \o m.emoji \o <<",", Quote>> \o EscapeQuotes(m.note) \o <<Quote>>

\* [headers.join(','), ...rows.map(r => r.join(','))].join('\n')
ExportText(moods) ==
    Join(<<HeaderRow>> \o [i \in 1..Len(moods) |-> CsvRow(moods[i])], "\n")

\* exportToCSV(): [error, value] with value the CSV text
exportToCSV(st) ==
    LET all == getAllMoods(st) IN
    IF all.kind # "array" THEN [error |-> "TypeError", value |-> <<>>]
    ELSE IF Len(all.items) = 0 THEN [error |-> "none", value |-> <<>>]
    ELSE [error |-> "none", value |-> ExportText(all.items)]

(***************************************************************************)
(* CSV import: importFromCSV, parseCSVLine, isValidDate                    *)
(***************************************************************************)
NoDataRowsError == "CSV file is empty or has no data rows"

MissingColumnsError == "CSV must have Date and Emoji columns"

DateWord == <<"d", "a", "t", "e">>

EmojiWord == <<"e", "m", "o", "j", "i">>

NoteWord == <<"n", "o", "t", "e">>

\* parseCSVLine(line): a quote toggles inQuotes and is dropped, a comma
\* outside quotes ends a value, every value is trimmed.
RECURSIVE ParseFrom(_, _, _, _)
ParseFrom(line, i, current, inQuotes) ==
    IF i > Len(line) THEN <<Trim(current)>>
    ELSE IF line[i] = Quote THEN ParseFrom(line, i + 1, current, ~inQuotes)
    ELSE IF line[i] = "," /\ ~inQuotes
         THEN <<Trim(current)>> \o ParseFrom(line, i + 1, <<>>, inQuotes)
    ELSE ParseFrom(line, i + 1, Append(current, line[i]), inQuotes)

parseCSVLine(line) == ParseFrom(line, 1, <<>>, FALSE)

\* values[index]: undefined when the index is -1 (here 0) or past the end
ValueAt(values, index) ==
    IF index \in 1..Len(values) THEN [defined |-> TRUE, s |-> values[index]]
    ELSE [defined |-> FALSE, s |-> <<>>]

\* JavaScript truthiness of a string or undefined
Truthy(v) == v.defined /\ v.s # <<>>

\* note.replace(/^"|"$/g, '')
StripOuterQuotes(note) ==
    LET a == IF note # <<>> /\ Head(note) = Quote THEN Tail(note) ELSE note
    IN IF a # <<>> /\ a[Len(a)] = Quote THEN SubSeq(a, 1, Len(a) - 1) ELSE a

\* isValidDate(dateStr)
isValidDate(dateStr) == IsDateText(dateStr)

TooFewLines_HeaderOnlyAllowed(lines) == Len(lines) < 1

\* lines.length < 2
TooFewLines(lines) == Len(lines) < 2

\* !header.includes('date') || !header.includes('emoji')
HeaderRejected(header) == ~Includes(header, DateWord) \/ ~Includes(header, EmojiWord)

\* header.split(',').map(h => h.trim())
HeaderNames(header) ==
    LET parts == Split(header, ",") IN [i \in 1..Len(parts) |-> Trim(parts[i])]

\* date && emoji && isValidDate(date)
RowAccepted(date, emoji) == Truthy(date) /\ Truthy(emoji) /\ isValidDate(date.s)

\* the loop over lines[1..]: [storage, error, value] with value the count
RECURSIVE ImportRows(_, _, _, _, _)
ImportRows(st, lines, i, headers, imported) ==
    IF i > Len(lines) THEN [storage |-> st, error |-> "none", value |-> imported]
    ELSE
    LET line == Trim(lines[i]) IN
    IF line = <<>> THEN ImportRows(st, lines, i + 1, headers, imported)
    ELSE
    LET values == parseCSVLine(line)
        noteIndex == IndexOf(headers, NoteWord)
        date == ValueAt(values, IndexOf(headers, DateWord))
        emoji == ValueAt(values, IndexOf(headers, EmojiWord))
        noteValue == ValueAt(values, noteIndex)
        note == IF noteIndex > 0 /\ Truthy(noteValue) THEN noteValue.s ELSE <<>>
    IN
    IF RowAccepted(date, emoji)
    THEN LET saved == saveMood(st, date.s, emoji.s, StripOuterQuotes(note), NoTagsArg)
         IN IF saved.error # "none"
            THEN [storage |-> saved.storage, error |-> saved.error, value |-> imported]
            ELSE ImportRows(saved.storage, lines, i + 1, headers, imported + 1)
    ELSE ImportRows(st, lines, i + 1, headers, imported)

importFromCSV_Replacing(st, csvContent) ==
    LET lines == Split(Trim(csvContent), "\n") IN
    IF TooFewLines(lines)
    THEN [storage |-> st, error |-> NoDataRowsError, value |-> 0]
    ELSE
    LET header == ToLowerCase(lines[1]) IN
    IF HeaderRejected(header)
    THEN [storage |-> st, error |-> MissingColumnsError, value |-> 0]
    ELSE ImportRows(Absent, lines, 2, HeaderNames(header), 0)

importFromCSV_ClearingFirst(st, csvContent) ==
    LET lines == Split(Trim(csvContent), "\n") IN
    IF TooFewLines(lines)
    THEN [storage |-> Absent, error |-> NoDataRowsError, value |-> 0]
    ELSE
    LET header == ToLowerCase(lines[1]) IN
    IF HeaderRejected(header)
    THEN [storage |-> Absent, error |-> MissingColumnsError, value |-> 0]
    ELSE ImportRows(st, lines, 2, HeaderNames(header), 0)


\* importFromCSV(csvContent) on storage st: [storage, error, value]
importFromCSV(st, csvContent) ==
    LET lines == Split(Trim(csvContent), "\n") IN
    IF TooFewLines(lines)
    THEN [storage |-> st, error |-> NoDataRowsError, value |-> 0]
    ELSE
    LET header == ToLowerCase(lines[1]) IN
    IF HeaderRejected(header)
    THEN [storage |-> st, error |-> MissingColumnsError, value |-> 0]
    ELSE ImportRows(st, lines, 2, HeaderNames(header), 0)

(***************************************************************************)
(* Statistics: js/stats.js, and getMoodsForMonth of js/storage.js.  Each   *)
(* works on moods, the sequence getAllMoods() returns, under the clock c   *)
(* or its time zone tz.                                                    *)
(***************************************************************************)
\* getMoodsForMonth(year, month): the entries whose new Date(m.date) has,
\* in local time, that year and that month (0 for January)
getMoodsForMonth(moods, year, month, tz) ==
    SelectSeq(moods, LAMBDA m :
        /\ GetFullYear(ParseDate(m.date), tz) = year
        /\ GetMonth(ParseDate(m.date), tz) = month)

\* The tally counts[m.emoji] = (counts[m.emoji] || 0) + 1 over moods.
CountOf(moods, emoji) == Len(SelectSeq(moods, LAMBDA m : m.emoji = emoji))

\* the keys of counts in the order they were created
RECURSIVE InsertionOrder(_)
InsertionOrder(moods) ==
    IF moods = <<>> THEN <<>>
    ELSE LET rest == InsertionOrder(SubSeq(moods, 1, Len(moods) - 1))
             e == moods[Len(moods)].emoji
         IN IF \E i \in 1..Len(rest) : rest[i] = e THEN rest ELSE Append(rest, e)

\* Keys that are array indices (canonical numeric strings; the one-digit
\* ones here) come first in an object's property order, in numeric order.
DigitKeys == << <<"0">>, <<"1">>, <<"2">>, <<"3">>, <<"4">>, <<"5">>, <<"6">>, <<"7">>,
                <<"8">>, <<"9">> >>

IsArrayIndex(key) == \E i \in 1..Len(DigitKeys) : DigitKeys[i] = key

\* Object.entries(counts): array-index keys in ascending numeric order,
\* then the other keys in insertion order; each with its count
ObjectEntries(moods) ==
    LET keys == InsertionOrder(moods)
        has(k) == \E i \in 1..Len(keys) : keys[i] = k
        ordered == SelectSeq(DigitKeys, has) \o SelectSeq(keys, LAMBDA k : ~IsArrayIndex(k))
    IN [i \in 1..Len(ordered) |-> <<ordered[i], CountOf(moods, ordered[i])>>]

NoEmoji == [found |-> FALSE, emoji |-> <<>>]

\* entries.forEach(([emoji, count]) => { if (count > maxCount) ... })
RECURSIVE MaxEntryFrom(_, _, _, _)
MaxEntryFrom(entries, i, maxCount, mostCommon) ==
    IF i > Len(entries) THEN mostCommon
    ELSE IF entries[i][2] > maxCount
         THEN MaxEntryFrom(entries, i + 1, entries[i][2],
                           [found |-> TRUE, emoji |-> entries[i][1]])
    ELSE MaxEntryFrom(entries, i + 1, maxCount, mostCommon)

\* getMostCommonMood(year, month): found is FALSE for null
getMostCommonMood(moods, year, month, tz) ==
    LET monthMoods == getMoodsForMonth(moods, year, month, tz) IN
    IF Len(monthMoods) = 0 THEN NoEmoji
    ELSE MaxEntryFrom(ObjectEntries(monthMoods), 1, 0, NoEmoji)


\* getCurrentStreak's loop: expectedDate goes back one day and to local
\* midnight at every round; streak counts the entries that fall on it
RECURSIVE CurrentStreakFrom(_, _, _, _, _)
CurrentStreakFrom(sorted, i, expectedDate, streak, tz) ==
    IF i > Len(sorted) THEN streak
    ELSE LET currentDate == SetHoursZero(ParseDate(sorted[i].date), tz)
             expected == SetHoursZero(MinusDays(expectedDate, 1), tz)
         IN IF currentDate = expected
            THEN CurrentStreakFrom(sorted, i + 1, expected, streak + 1, tz)
            ELSE streak

\* getCurrentStreak()
getCurrentStreak(moods, c) ==
    IF Len(moods) = 0 THEN 0
    ELSE LET sorted == SortMoods(moods)
             yesterday == MinusDays(TodayMidnight(c), 1)
             latestDate == SetHoursZero(ParseDate(sorted[1].date), c.tz)
         IN IF latestDate < yesterday THEN 0
            ELSE CurrentStreakFrom(sorted, 2, ParseDate(sorted[1].date), 1, c.tz)

\* [...moods].sort((a, b) => new Date(a.date) - new Date(b.date)), stable
RECURSIVE InsertAscending(_, _)
InsertAscending(sorted, m) ==
    IF sorted = <<>> THEN <<m>>
    ELSE IF DateValue(Head(sorted).date) - DateValue(m.date) <= 0
         THEN <<Head(sorted)>> \o InsertAscending(Tail(sorted), m)
         ELSE <<m>> \o sorted

RECURSIVE SortAscending(_)
SortAscending(moods) ==
    IF moods = <<>> THEN <<>>
    ELSE InsertAscending(SortAscending(SubSeq(moods, 1, Len(moods) - 1)), moods[Len(moods)])

Max(a, b) == IF a >= b THEN a ELSE b

LongestStep_ZeroResets(diffDays, maxStreak, currentStreak) ==
    IF diffDays = 1
    THEN [maxStreak |-> Max(maxStreak, currentStreak + 1), currentStreak |-> currentStreak + 1]
    ELSE [maxStreak |-> maxStreak, currentStreak |-> 1]

\* one round of getLongestStreak's loop: a difference of one day extends
\* the run, of more than one restarts it, of none leaves it as it is
LongestStep(diffDays, maxStreak, currentStreak) ==
    IF diffDays = 1
    THEN [maxStreak |-> Max(maxStreak, currentStreak + 1), currentStreak |-> currentStreak + 1]
    ELSE IF diffDays > 1 THEN [maxStreak |-> maxStreak, currentStreak |-> 1]
    ELSE [maxStreak |-> maxStreak, currentStreak |-> currentStreak]

RECURSIVE LongestStreakFrom(_, _, _, _)
LongestStreakFrom(sorted, i, maxStreak, currentStreak) ==
    IF i > Len(sorted) THEN maxStreak
    ELSE LET diffDays == DateValue(sorted[i].date) - DateValue(sorted[i - 1].date)
             next == LongestStep(diffDays, maxStreak, currentStreak)
         IN LongestStreakFrom(sorted, i + 1, next.maxStreak, next.currentStreak)

getLongestStreak_FromZero(moods) ==
    IF Len(moods) = 0 THEN 0
    ELSE LongestStreakFrom(SortAscending(moods), 2, 0, 1)


\* getLongestStreak()
getLongestStreak(moods) ==
    IF Len(moods) = 0 THEN 0
    ELSE LongestStreakFrom(SortAscending(moods), 2, 1, 1)


\* emojiToValue[emoji] || 3
EmojiValue(emoji) ==
    CASE emoji = Str("U+1F60D") -> 5
      [] emoji = Str("U+1F60A") -> 4
      [] emoji = Str("U+1F610") -> 3
      [] emoji = Str("U+1F634") -> 2
      [] emoji = Str("U+1F630") -> 2
      [] emoji = Str("U+1F622") -> 1
      [] emoji = Str("U+1F620") -> 1
      [] OTHER -> 3

\* one point of getTrendData: has is FALSE where value and emoji are null
TrendPoint(moods, dateStr) ==
    LET mood == FindMood(moods, dateStr) IN
    IF mood.found
    THEN [date |-> dateStr, has |-> TRUE, value |-> EmojiValue(mood.entry.emoji),
          emoji |-> mood.entry.emoji]
    ELSE [date |-> dateStr, has |-> FALSE, value |-> 0, emoji |-> <<>>]

\* getTrendData(days): for i = days - 1 down to 0, the point of the UTC
\* date of local midnight i days before today
getTrendData(moods, days, c) ==
    [k \in 1..days |-> TrendPoint(moods, ISODate(MinusDays(TodayMidnight(c), days - k)))]


(***************************************************************************)
(* Weekly insights and the year in review: js/features.js.  The emoji      *)
(* literals of features.js are not the emoji of the other files: each is   *)
(* the four characters U+F8FF U+00FC U+00F2 and one more.  The mood picker *)
(* is filled from them (DEFAULT_EMOJIS), so they are what a user saves;    *)
(* the demo data and stats.js use the emoji themselves.                    *)
(***************************************************************************)
Garbled(last) == <<"U+F8FF", "U+00FC", "U+00F2", last>>

PickerHappy == Garbled("U+00E4")

PickerSad == Garbled("U+00A2")

WEEKDAYS == <<"Sunday", "Monday", "Tuesday", "Wednesday", "Thursday", "Friday", "Saturday">>

\* emojiToValue[m.emoji] || 3, with the table of generateWeeklyInsights
InsightValue(emoji) ==
    CASE emoji = Garbled("U+00E7") -> 5
      [] emoji = Garbled("U+00E4") -> 4
      [] emoji = Garbled("U+00EA") -> 3
      [] emoji = Garbled("U+00A5") -> 2
      [] emoji = Garbled("U+221E") -> 2
      [] emoji = Garbled("U+00A2") -> 1
      [] emoji = Garbled("U+2020") -> 1
      [] OTHER -> 3

\* WEEKDAYS[new Date(m.date).getDay()]
WeekdayOf(m, tz) == WEEKDAYS[GetDay(ParseDate(m.date), tz) + 1]

RECURSIVE SumValues(_)
SumValues(moods) ==
    IF moods = <<>> THEN 0 ELSE InsightValue(Head(moods).emoji) + SumValues(Tail(moods))

\* dayStats[day] after moods.forEach: total and count
DayStats(moods, day, tz) ==
    LET ofDay == SelectSeq(moods, LAMBDA m : WeekdayOf(m, tz) = day)
    IN [total |-> SumValues(ofDay), count |-> Len(ofDay)]

\* An average total / count is kept as the pair; a < b for two of them
AvgLess(a, b) == a.total * b.count < b.total * a.count

NoDay == "null"

\* stats.count >= 2
Qualifies(stats) == stats.count >= 2

\* Object.entries(dayStats).forEach(...): best and worst day so far, from
\* the i-th weekday on
RECURSIVE BestWorstFrom(_, _, _, _, _, _, _)
BestWorstFrom(moods, tz, i, bestDay, bestAvg, worstDay, worstAvg) ==
    IF i > Len(WEEKDAYS)
    THEN [bestDay |-> bestDay, worstDay |-> worstDay]
    ELSE LET stats == DayStats(moods, WEEKDAYS[i], tz)
             better == Qualifies(stats) /\ AvgLess(bestAvg, stats)
             worse == Qualifies(stats) /\ AvgLess(stats, worstAvg)
         IN BestWorstFrom(moods, tz, i + 1,
                          IF better THEN WEEKDAYS[i] ELSE bestDay,
                          IF better THEN stats ELSE bestAvg,
                          IF worse THEN WEEKDAYS[i] ELSE worstDay,
                          IF worse THEN stats ELSE worstAvg)

\* entries.sort((a, b) => b[1] - a[1]), stable
RECURSIVE InsertByCount(_, _)
InsertByCount(sorted, e) ==
    IF sorted = <<>> THEN <<e>>
    ELSE IF e[2] - Head(sorted)[2] <= 0
         THEN <<Head(sorted)>> \o InsertByCount(Tail(sorted), e)
         ELSE <<e>> \o sorted

RECURSIVE SortByCount(_)
SortByCount(entries) ==
    IF entries = <<>> THEN <<>>
    ELSE InsertByCount(SortByCount(SubSeq(entries, 1, Len(entries) - 1)),
                       entries[Len(entries)])

\* Math.round((count / length) * 100)
Percentage(count, length) == (200 * count + length) \div (2 * length)

\* getCurrentStreakDays(moods)
getCurrentStreakDays(moods, c) ==
    IF Len(moods) = 0 THEN 0
    ELSE LET sorted == SortMoods(moods)
             yesterday == MinusDays(TodayMidnight(c), 1)
             latestDate == SetHoursZero(ParseDate(sorted[1].date), c.tz)
         IN IF latestDate < yesterday THEN 0
            ELSE CurrentStreakFrom(sorted, 2, ParseDate(sorted[1].date), 1, c.tz)

\* one insight: its type and what its text names
Insight(type, day, emoji, number) ==
    [type |-> type, day |-> day, emoji |-> emoji, number |-> number]

TooFewEntries_Six(moods) == Len(moods) < 6

\* moods.length < 7
TooFewEntries(moods) == Len(moods) < 7

\* generateWeeklyInsights()
generateWeeklyInsights(moods, c) ==
    IF TooFewEntries(moods) THEN <<>>
    ELSE
    LET bw == BestWorstFrom(moods, c.tz, 1, NoDay, [total |-> 0, count |-> 1],
                            NoDay, [total |-> 5, count |-> 1])
        sortedCounts == SortByCount(ObjectEntries(moods))
        streak == getCurrentStreakDays(moods, c)
    IN (IF bw.bestDay # NoDay
        THEN <<Insight("positive", bw.bestDay, <<>>, 0)>> ELSE <<>>)
       \o (IF bw.worstDay # NoDay /\ bw.worstDay # bw.bestDay
           THEN <<Insight("info", bw.worstDay, <<>>, 0)>> ELSE <<>>)
       \o (IF sortedCounts # <<>>
           THEN <<Insight("stat", NoDay, sortedCounts[1][1],
                          Percentage(sortedCounts[1][2], Len(moods)))>>
           ELSE <<>>)
       \o (IF streak >= 7 THEN <<Insight("achievement", NoDay, <<>>, streak)>> ELSE <<>>)


MONTHS == <<"Jan", "Feb", "Mar", "Apr", "May", "Jun", "Jul", "Aug", "Sep", "Oct", "Nov", "Dec">>

\* Object.entries(emojiCounts).sort((a, b) => b[1] - a[1])[0], then
\* dominant ? dominant[0] : null
Dominant(moods) ==
    LET sorted == SortByCount(ObjectEntries(moods)) IN
    IF sorted = <<>> THEN NoEmoji ELSE [found |-> TRUE, emoji |-> sorted[1][1]]

\* getYearReview(year)
getYearReview(moods, year, tz) ==
    LET yearMoods == SelectSeq(moods, LAMBDA m : GetFullYear(ParseDate(m.date), tz) = year)
        MonthMoods(i) == SelectSeq(yearMoods, LAMBDA m : GetMonth(ParseDate(m.date), tz) = i)
    IN [year |-> year,
        months |-> [k \in 1..Len(MONTHS) |->
                       [name |-> MONTHS[k], count |-> Len(MonthMoods(k - 1)),
                        emoji |-> Dominant(MonthMoods(k - 1))]],
        totalEntries |-> Len(yearMoods),
        topEmoji |-> Dominant(yearMoods),
        daysLogged |-> Len(yearMoods)]


(***************************************************************************)
(* Tags and mood patterns: js/features.js; getTotalEntries of js/stats.js. *)
(* A tag is one symbol: the code compares tags with === and uses them as   *)
(* property keys.                                                          *)
(***************************************************************************)
\* getTotalEntries(): getAllMoods().length
getTotalEntries(moods) == Len(moods)

\* The tags moods.forEach(m => m.tags.forEach(...)) meets, in that order.
RECURSIVE TagOccurrences(_)
TagOccurrences(moods) ==
    IF moods = <<>> THEN <<>> ELSE Head(moods).tags \o TagOccurrences(Tail(moods))

\* tagCounts[tag] after the loop
TagCount(occurrences, tag) ==
    Cardinality({i \in 1..Len(occurrences) : occurrences[i] = tag})

RECURSIVE FirstOccurrences(_)
FirstOccurrences(occurrences) ==
    IF occurrences = <<>> THEN <<>>
    ELSE LET rest == FirstOccurrences(SubSeq(occurrences, 1, Len(occurrences) - 1))
             t == occurrences[Len(occurrences)]
         IN IF \E i \in 1..Len(rest) : rest[i] = t THEN rest ELSE Append(rest, t)

DigitTags == <<"0", "1", "2", "3", "4", "5", "6", "7", "8", "9">>

\* Object.entries(tagCounts): array-index keys first, then insertion order
TagEntries(moods) ==
    LET occurrences == TagOccurrences(moods)
        keys == FirstOccurrences(occurrences)
        has(k) == \E i \in 1..Len(keys) : keys[i] = k
        isIndex(k) == \E i \in 1..Len(DigitTags) : DigitTags[i] = k
        ordered == SelectSeq(DigitTags, has) \o SelectSeq(keys, LAMBDA k : ~isIndex(k))
    IN [i \in 1..Len(ordered) |-> <<ordered[i], TagCount(occurrences, ordered[i])>>]

\* getAllTags(): .sort((a, b) => b[1] - a[1]).map(([tag, count]) => ({ tag, count }))
getAllTags(moods) ==
    LET sorted == SortByCount(TagEntries(moods))
    IN [i \in 1..Len(sorted) |-> [tag |-> sorted[i][1], count |-> sorted[i][2]]]

\* the 5 of slice(0, 5)
PopularCount == 5

\* array.slice(0, end)
SliceTo_One(array, end) == SubSeq(array, 1, IF Len(array) < 1 THEN Len(array) ELSE 1)

SliceTo(array, end) == SubSeq(array, 1, IF Len(array) < end THEN Len(array) ELSE end)

\* getPopularTags(): getAllTags().slice(0, 5)
getPopularTags(moods) == SliceTo(getAllTags(moods), PopularCount)

\* tags.includes(tag)
TagsInclude(tags, tag) == \E i \in 1..Len(tags) : tags[i] = tag

\* if (!tags.includes(tag)) { tags.push(tag); saveMood(...) }
AddsTag_Always(tags, tag) == TRUE

AddsTag(tags, tag) == ~TagsInclude(tags, tag)

\* addTagToMood(date, tag) on storage st: [storage, error, value]; value
\* is [isNull, tags]
addTagToMood(st, date, tag) ==
    LET all == getAllMoods(st) IN
    IF all.kind # "array"
    THEN [storage |-> st, error |-> "TypeError", value |-> <<>>]
    ELSE LET mood == FindMood(all.items, date) IN
         IF ~mood.found
         THEN [storage |-> st, error |-> "none", value |-> [isNull |-> TRUE, tags |-> <<>>]]
         ELSE IF AddsTag(mood.entry.tags, tag)
              THEN LET tags == Append(mood.entry.tags, tag)
                       r == saveMood(st, date, mood.entry.emoji, mood.entry.note,
                                     TagsArg(tags))
                   IN [storage |-> r.storage, error |-> r.error,
                       value |-> [isNull |-> FALSE, tags |-> tags]]
              ELSE [storage |-> st, error |-> "none",
                    value |-> [isNull |-> FALSE, tags |-> mood.entry.tags]]

\* removeTagFromMood(date, tag): mood.tags.filter(t => t !== tag), saved
\* whether or not the tag was there
removeTagFromMood(st, date, tag) ==
    LET all == getAllMoods(st) IN
    IF all.kind # "array"
    THEN [storage |-> st, error |-> "TypeError", value |-> <<>>]
    ELSE LET mood == FindMood(all.items, date) IN
         IF ~mood.found
         THEN [storage |-> st, error |-> "none", value |-> [isNull |-> TRUE, tags |-> <<>>]]
         ELSE LET tags == SelectSeq(mood.entry.tags, LAMBDA t : t # tag)
                  r == saveMood(st, date, mood.entry.emoji, mood.entry.note,
                                TagsArg(tags))
              IN [storage |-> r.storage, error |-> r.error,
                  value |-> [isNull |-> FALSE, tags |-> tags]]

\* the emoji column of getMoodPatterns for a weekday with no entry
PatternDash == <<"U+201A", "U+00C4", "U+00EE">>

\* Object.entries(p.emojis).sort((a, b) => b[1] - a[1])[0]
PatternEmoji(moods) ==
    LET d == Dominant(moods) IN IF d.found THEN d.emoji ELSE PatternDash

\* WEEKDAYS[i].slice(0, 3)
ShortDay(day) ==
    CASE day = "Sunday" -> "Sun" [] day = "Monday" -> "Mon" [] day = "Tuesday" -> "Tue"
      [] day = "Wednesday" -> "Wed" [] day = "Thursday" -> "Thu"
      [] day = "Friday" -> "Fri" [] day = "Saturday" -> "Sat"

\* getMoodPatterns(): one row per weekday
getMoodPatterns(moods, tz) ==
    [i \in 1..Len(WEEKDAYS) |->
        LET ofDay == SelectSeq(moods, LAMBDA m : GetDay(ParseDate(m.date), tz) = i - 1)
        IN [day |-> ShortDay(WEEKDAYS[i]), emoji |-> PatternEmoji(ofDay),
            count |-> Len(ofDay)]]



(***************************************************************************)
(* The callers' inputs                                                     *)
(***************************************************************************)
Happy == Str("U+1F60A")

Sad == Str("U+1F622")

Emojis == {Happy, Sad}

\* notes as typed: the second one has blanks around it and a double quote in it
RawNotes == {<<>>, <<" ", "a", Quote, "b", " ">>}

TagsArgs == {NoTagsArg, TagsArg(<<>>), TagsArg(<<"work">>)}

\* sequences over S of length lo..hi
SeqsOf(S, lo, hi) == UNION {[1..n -> S] : n \in lo..hi}

CsvText(header, rows) == Join(<<header>> \o rows, "\n")

\* Files merged into a store in use: the exported header, one or two rows.
MergeRows(dates) == {d \o <<",">> \o Happy \o <<",", Quote, Quote>> : d \in dates}

MergeInputs(dates) == {CsvText(HeaderRow, rows) : rows \in SeqsOf(MergeRows(dates), 1, 2)}

\* Files with no data rows, or nothing at all.
DegenerateInputs ==
    { <<>>, <<" ">>, <<"\n">>, HeaderRow, HeaderRow \o <<"\n">>,
      <<"\n", " ">> \o HeaderRow \o <<" ", "\n", "\n">> }

\* Files whose header is any row of up to MaxCols distinct column names.
ColumnNames ==
    { <<"D", "a", "t", "e">>, <<"E", "m", "o", "j", "i">>, <<"N", "o", "t", "e">>,
      <<"M", "o", "o", "d">>, <<"E", "m", "o", "j", "i", "s">>,
      <<"U", "p", "d", "a", "t", "e", "d">> }

Headers ==
    { Join(cols, ",") :
        cols \in {c \in SeqsOf(ColumnNames, 1, MaxCols) :
                    \A i, j \in 1..Len(c) : i # j => c[i] # c[j]} }

FirstDate == Str(DateList[1])

SecondDate == Str(DateList[2])

SampleRow == FirstDate \o <<",">> \o Happy \o <<",", Quote, "a", Quote>>

HeaderInputs == {CsvText(h, <<SampleRow>>) : h \in Headers} \cup Headers

\* Files with a good header in some column order and up to MaxRows rows of
\* good and bad fields; a row may also be a blank line.
ColumnOrders ==
    { <<"date", "emoji", "note">>, <<"emoji", "date">>, <<"note", "date", "emoji">> }

ColumnTitle(col) ==
    CASE col = "date" -> <<"D", "a", "t", "e">>
      [] col = "emoji" -> <<"E", "m", "o", "j", "i">>
      [] col = "note" -> <<"N", "o", "t", "e">>

RowFields ==
    { [date |-> FirstDate, emoji |-> Happy, note |-> <<Quote, "a", Quote>>],
      [date |-> FirstDate, emoji |-> Sad, note |-> <<Quote, "b", ",", "c", Quote>>],
      [date |-> SecondDate, emoji |-> Happy, note |-> <<>>],
      [date |-> SecondDate, emoji |-> Sad, note |-> <<" ", "x">>],
      [date |-> <<"n", "o", "t", "a", "d", "a", "t", "e">>, emoji |-> Happy,
       note |-> <<Quote, "a", Quote>>],
      [date |-> FirstDate, emoji |-> <<>>, note |-> <<Quote, "a", Quote>>],
      [date |-> <<>>, emoji |-> Happy, note |-> <<Quote, "a", Quote>>] }

RowText(order, f) == Join([i \in 1..Len(order) |-> f[order[i]]], ",")

RowInputsIn(order) ==
    { CsvText(Join([i \in 1..Len(order) |-> ColumnTitle(order[i])], ","), rows) :
        rows \in SeqsOf({RowText(order, f) : f \in RowFields} \cup {<<>>}, 1, MaxRows) }

RowInputs == UNION {RowInputsIn(order) : order \in ColumnOrders}

CsvInputs == DegenerateInputs \cup HeaderInputs \cup RowInputs

\* Files with a good header and up to MaxRows rows whose date field is a
\* day, a year and month, not a date, or empty, or whose emoji is empty.
DateFormFields ==
    { [date |-> FirstDate, emoji |-> Happy, note |-> <<>>],
      [date |-> YearMonthText, emoji |-> Happy, note |-> <<>>],
      [date |-> <<"n", "o", "t", "a", "d", "a", "t", "e">>, emoji |-> Happy, note |-> <<>>],
      [date |-> SecondDate, emoji |-> <<>>, note |-> <<>>],
      [date |-> <<>>, emoji |-> Sad, note |-> <<>>] }

DateFormInputsIn(order) ==
    { CsvText(Join([i \in 1..Len(order) |-> ColumnTitle(order[i])], ","), rows) :
        rows \in SeqsOf({RowText(order, f) : f \in DateFormFields}, 1, MaxRows) }

DateFormInputs == UNION {DateFormInputsIn(order) : order \in ColumnOrders}

\* Collections the statistics read: for each of the first k dates of
\* dateList nothing or one of emojis, saved one after the other into the
\* empty store.
RECURSIVE CollectionsUpTo(_, _, _)
CollectionsUpTo(dateList, emojis, k) ==
    IF k = 0 THEN {Absent}
    ELSE LET before == CollectionsUpTo(dateList, emojis, k - 1) IN
         before \cup
         { saveMood(st, Str(dateList[k]), emoji, <<>>, NoTagsArg).storage :
             st \in before, emoji \in emojis }

Collections(dateList, emojis) == CollectionsUpTo(dateList, emojis, Len(dateList))

\* An emoji the user typed as a custom emoji: any text is taken.
CustomEmoji == Str("1")

StatsEmojis == {Happy, Sad, CustomEmoji}

\* two days of February, and days whose local month depends on the time zone
MonthDateList ==
    SubSeq(<<"2024-02-29", "2024-02-28", "2024-03-01", "2024-01-01", "2023-12-31">>,
           1, NumMonthDates)

\* the clock reads 29 February or 1 March 2024, in one of TimeZones
Clocks == [today : {DateValue(FirstDate), DateValue(SecondDate)}, tz : TimeZones]


\* days around the clock's today, on both sides of a gap, and the text of
\* a year and month an import has left as a date
StreakDateList ==
    SubSeq(<<"2024-03-01", "2024-02-29", "2024-03", "2024-03-02", "2024-02-26",
             "2024-02-25", "2024-02-28">>, 1, NumStreakDates)

TrendEmojis == {Happy, CustomEmoji}


\* two Sundays, two Mondays, and the seven days up to 2 March 2024
InsightDateList ==
    SubSeq(<<"2023-12-31", "2024-01-01", "2024-02-25", "2024-02-26", "2024-02-27",
             "2024-02-28", "2024-02-29", "2024-03-01", "2024-03-02", "2024-02-24">>,
           1, NumInsightDates)

InsightEmojis == {PickerHappy, PickerSad}


\* The tags a user typed, lower-cased and without '#'; "1" is an array index
\* among the keys of an object.
TagNames == SubSeq(<<"work", "1", "family", "sleep", "sport", "travel", "food", "rest">>,
                   1, NumTags)

\* What a run of addTagToMood leaves in an entry: no tag, the first two,
\* all of them, all but the first, or the last one.
TagLists ==
    {SubSeq(TagNames, 1, n) : n \in {0, 2, NumTags}}
        \cup {SubSeq(TagNames, n, NumTags) : n \in {2, NumTags}}

TagDateList == SubSeq(<<"2024-03-01", "2024-02-29", "2024-02-28", "2024-02-27">>,
                      1, NumTagDates)

\* Tagged collections: each date of dateList has no entry, or one whose
\* tags are one of TagLists, as the last saveMood of addTagToMood wrote them.
RECURSIVE TagCollectionsUpTo(_, _)
TagCollectionsUpTo(dateList, k) ==
    IF k = 0 THEN {Absent}
    ELSE LET before == TagCollectionsUpTo(dateList, k - 1) IN
         before \cup
         { saveMood(st, Str(dateList[k]), Happy, <<>>, TagsArg(tags)).storage :
             st \in before, tags \in TagLists }

TagCollections == TagCollectionsUpTo(TagDateList, Len(TagDateList))



(***************************************************************************)
(* The other keys of localStorage, and the document.  Where a              *)
(* specification is about the store alone they are these two constants.    *)
(***************************************************************************)
\* localStorage.getItem(THEME_KEY) and getItem(REMINDER_KEY): "null" is null
NoPrefs == [theme |-> "null", reminder |-> "null"]

NoPage == [open |-> FALSE]

(***************************************************************************)
(* The state machine                                                       *)
(***************************************************************************)
NotReading == [busy |-> FALSE, text |-> <<>>]

Init ==
    /\ storage = Absent
    /\ mode = "ok"
    /\ reading = NotReading
    /\ ret = Returned("init", <<>>, <<>>)
    /\ clock = [today |-> DateValue(SecondDate), tz |-> 0]
    /\ prefs = NoPrefs
    /\ page = NoPage

\* Every store call runs to completion; a file being read is delivered
\* before the next call (the import sees the store of the moment onload
\* runs, so calls made while the file is read are calls made before it).
Idle == ~reading.busy

GetAllMoodsCall ==
    /\ Idle
    /\ ret' = Returned("getAllMoods", <<>>, getAllMoods(storage))
    /\ UNCHANGED <<storage, mode, reading, clock, prefs, page>>

GetMoodCall(dates) ==
    \E date \in dates :
        /\ Idle
        /\ LET all == getAllMoods(storage) IN
           ret' = IF all.kind # "array"
                  THEN Threw("getMood", [date |-> date], "TypeError")
                  ELSE Returned("getMood", [date |-> date], FindMood(all.items, date))
        /\ UNCHANGED <<storage, mode, reading, clock, prefs, page>>

SaveMoodCall(dates, emojis, notes, tagsArgs) ==
    \E date \in dates, emoji \in emojis, note \in notes, tags \in tagsArgs :
        /\ Idle
        /\ LET r == saveMood(storage, date, emoji, note, tags)
               args == [date |-> date, emoji |-> emoji, note |-> note, tags |-> tags]
           IN /\ storage' = r.storage
              /\ ret' = [op |-> "saveMood", args |-> args, error |-> r.error,
                         value |-> r.value]
        /\ UNCHANGED <<mode, reading, clock, prefs, page>>

\* deleteMood(date)
DeleteMoodCall(dates) ==
    \E date \in dates :
        /\ Idle
        /\ LET all == getAllMoods(storage) IN
           IF all.kind # "array"
           THEN /\ ret' = Threw("deleteMood", [date |-> date], "TypeError")
                /\ UNCHANGED storage
           ELSE /\ storage' = saveMoods(storage, FilterOut(all.items, date))
                /\ ret' = Returned("deleteMood", [date |-> date], <<>>)
        /\ UNCHANGED <<mode, reading, clock, prefs, page>>

ClearAllCall ==
    /\ Idle
    /\ LET r == clearAll(storage) IN
       /\ storage' = r.storage
       /\ ret' = [op |-> "clearAll", args |-> <<>>, error |-> r.error, value |-> <<>>]
    /\ UNCHANGED <<mode, reading, clock, prefs, page>>

ExportToCSVCall ==
    /\ Idle
    /\ LET r == exportToCSV(storage) IN
       ret' = [op |-> "exportToCSV", args |-> <<>>, error |-> r.error, value |-> r.value]
    /\ UNCHANGED <<storage, mode, reading, clock, prefs, page>>

\* handleFileImport(file): the FileReader starts reading the file
HandleFileImport(inputs) ==
    \E csvContent \in inputs :
        /\ Idle
        /\ reading' = [busy |-> TRUE, text |-> csvContent]
        /\ ret' = Returned("handleFileImport", <<>>, <<>>)
        /\ UNCHANGED <<storage, mode, clock, prefs, page>>

\* reader.onload: importFromCSV(e.target.result), resolve(count) or reject(err)
ReaderOnLoad ==
    /\ reading.busy
    /\ LET r == importFromCSV(storage, reading.text) IN
       /\ storage' = r.storage
       /\ ret' = [op |-> "importFromCSV", args |-> <<>>, error |-> r.error,
                  value |-> r.value]
    /\ reading' = NotReading
    /\ UNCHANGED <<mode, clock, prefs, page>>

Next ==
    \/ SaveMoodCall(Dates, Emojis, RawNotes, TagsArgs)
    \/ DeleteMoodCall(Dates)
    \/ ClearAllCall
    \/ GetMoodCall(Dates)
    \/ GetAllMoodsCall
    \/ ExportToCSVCall
    \/ HandleFileImport(MergeInputs(Dates))
    \/ ReaderOnLoad

Spec == Init /\ [][Next]_vars

\* Many dates, one emoji, no note, no tags: the order of the collection.
NextOrder ==
    \/ SaveMoodCall(OrderDates, {Happy}, {<<>>}, {NoTagsArg})
    \/ DeleteMoodCall(OrderDates)
    \/ ClearAllCall
    \/ GetAllMoodsCall
    \/ HandleFileImport(MergeInputs(OrderDates))
    \/ ReaderOnLoad

SpecOrder == Init /\ [][NextOrder]_vars

\* One entry saved by hand, and every file of CsvInputs imported over it.
NextCSV ==
    \/ SaveMoodCall({FirstDate}, {Sad}, {<<"z">>}, {TagsArg(<<"work">>)})
    \/ ClearAllCall
    \/ GetAllMoodsCall
    \/ HandleFileImport(CsvInputs)
    \/ ReaderOnLoad

SpecCSV == Init /\ [][NextCSV]_vars

\* Files of DateFormInputs imported into the store, cleared now and then.
NextDateForms ==
    \/ ClearAllCall
    \/ GetAllMoodsCall
    \/ HandleFileImport(DateFormInputs)
    \/ ReaderOnLoad

SpecDateForms == Init /\ [][NextDateForms]_vars

\* localStorage starts or stops failing: the quota is reached, or storage
\* is disabled for the page.
StorageModeChanges ==
    \E m \in {"ok", "quota", "disabled"} :
        /\ Idle
        /\ m # mode
        /\ mode' = m
        /\ UNCHANGED <<storage, reading, ret, clock, prefs, page>>

\* Something other than saveMoods writes the key: the text is damaged, or
\* another script stores its own value there.
StorageOverwritten ==
    \E kind \in {"empty", "unparseable", "null", "object"} :
        /\ Idle
        /\ mode = "ok"
        /\ storage' = Stored(kind, <<>>)
        /\ UNCHANGED <<mode, reading, ret, clock, prefs, page>>

NextFault ==
    \/ SaveMoodCall(Dates, {Happy}, {<<>>}, {NoTagsArg, TagsArg(<<"work">>)})
    \/ DeleteMoodCall(Dates)
    \/ ClearAllCall
    \/ GetMoodCall(Dates)
    \/ GetAllMoodsCall
    \/ StorageModeChanges
    \/ StorageOverwritten

SpecFault == Init /\ [][NextFault]_vars

(***************************************************************************)
(* The statistics, read from a collection that is any of a bounded set and *)
(* under any clock of Clocks.                                              *)
(***************************************************************************)
InitStats(collections, clocks) ==
    /\ mode = "ok"
    /\ reading = NotReading
    /\ ret = Returned("init", <<>>, <<>>)
    /\ clock \in clocks
    /\ prefs = NoPrefs
    /\ page = NoPage
    /\ storage \in collections

GetMostCommonMoodCall(years, months) ==
    \E year \in years, month \in months :
        /\ Idle
        /\ ret' = Returned("getMostCommonMood", [year |-> year, month |-> month],
                           getMostCommonMood(getAllMoods(storage).items, year, month,
                                             clock.tz))
        /\ UNCHANGED <<storage, mode, reading, clock, prefs, page>>

\* the months (0 for January) and years the entries of MonthDateList fall in
StatsMonths == {0, 1, 2, 11}

StatsYears == {2023, 2024}

InitMonths == InitStats(Collections(MonthDateList, StatsEmojis), Clocks)

GetYearReviewCall(years) ==
    \E year \in years :
        /\ Idle
        /\ ret' = Returned("getYearReview", [year |-> year],
                           getYearReview(getAllMoods(storage).items, year, clock.tz))
        /\ UNCHANGED <<storage, mode, reading, clock, prefs, page>>

GetMoodsForMonthCall(years, months) ==
    \E year \in years, month \in months :
        /\ Idle
        /\ ret' = Returned("getMoodsForMonth", [year |-> year, month |-> month],
                           getMoodsForMonth(getAllMoods(storage).items, year, month,
                                            clock.tz))
        /\ UNCHANGED <<storage, mode, reading, clock, prefs, page>>

NextMonths ==
    \/ GetMoodsForMonthCall(StatsYears, StatsMonths)
    \/ GetMostCommonMoodCall(StatsYears, StatsMonths)
    \/ GetYearReviewCall(StatsYears)

SpecMonths == InitMonths /\ [][NextMonths]_vars


GetCurrentStreakCall ==
    /\ Idle
    /\ ret' = Returned("getCurrentStreak", <<>>,
                       getCurrentStreak(getAllMoods(storage).items, clock))
    /\ UNCHANGED <<storage, mode, reading, clock, prefs, page>>

GetLongestStreakCall ==
    /\ Idle
    /\ ret' = Returned("getLongestStreak", <<>>, getLongestStreak(getAllMoods(storage).items))
    /\ UNCHANGED <<storage, mode, reading, clock, prefs, page>>

GetTrendDataCall ==
    \E days \in 1..MaxTrendDays :
        /\ Idle
        /\ ret' = Returned("getTrendData", [days |-> days],
                           getTrendData(getAllMoods(storage).items, days, clock))
        /\ UNCHANGED <<storage, mode, reading, clock, prefs, page>>

InitStreaks == InitStats(Collections(StreakDateList, TrendEmojis), Clocks)

NextStreaks ==
    \/ GetCurrentStreakCall
    \/ GetLongestStreakCall
    \/ GetTrendDataCall

SpecStreaks == InitStreaks /\ [][NextStreaks]_vars


GenerateWeeklyInsightsCall ==
    /\ Idle
    /\ ret' = Returned("generateWeeklyInsights", <<>>,
                       generateWeeklyInsights(getAllMoods(storage).items, clock))
    /\ UNCHANGED <<storage, mode, reading, clock, prefs, page>>

\* the insights are read on 1 March 2024, in New York or in UTC
InitInsights ==
    InitStats(Collections(InsightDateList, InsightEmojis),
              {c \in Clocks : c.today = DateValue(SecondDate) /\ c.tz <= 0})

NextInsights ==
    \/ GenerateWeeklyInsightsCall

SpecInsights == InitInsights /\ [][NextInsights]_vars


(***************************************************************************)
(* The analytics, read from a tagged collection.                           *)
(***************************************************************************)
GetTotalEntriesCall_Clearing ==
    /\ Idle
    /\ ret' = Returned("getTotalEntries", <<>>, getTotalEntries(getAllMoods(storage).items))
    /\ storage' = Absent
    /\ UNCHANGED <<mode, reading, clock, prefs, page>>

GetTotalEntriesCall ==
    /\ Idle
    /\ ret' = Returned("getTotalEntries", <<>>, getTotalEntries(getAllMoods(storage).items))
    /\ UNCHANGED <<storage, mode, reading, clock, prefs, page>>

GetAllTagsCall ==
    /\ Idle
    /\ ret' = Returned("getAllTags", <<>>, getAllTags(getAllMoods(storage).items))
    /\ UNCHANGED <<storage, mode, reading, clock, prefs, page>>

GetPopularTagsCall ==
    /\ Idle
    /\ ret' = Returned("getPopularTags", <<>>, getPopularTags(getAllMoods(storage).items))
    /\ UNCHANGED <<storage, mode, reading, clock, prefs, page>>

GetMoodPatternsCall ==
    /\ Idle
    /\ ret' = Returned("getMoodPatterns", <<>>,
                       getMoodPatterns(getAllMoods(storage).items, clock.tz))
    /\ UNCHANGED <<storage, mode, reading, clock, prefs, page>>

\* the analytics are read on 1 March 2024, in any of TimeZones
InitAnalytics ==
    InitStats(TagCollections, {c \in Clocks : c.today = DateValue(SecondDate)})

NextAnalytics ==
    \/ GetMostCommonMoodCall(StatsYears, StatsMonths)
    \/ GetCurrentStreakCall
    \/ GetLongestStreakCall
    \/ GetTotalEntriesCall
    \/ GetTrendDataCall
    \/ GetAllTagsCall
    \/ GetPopularTagsCall
    \/ GenerateWeeklyInsightsCall
    \/ GetMoodPatternsCall
    \/ GetYearReviewCall(StatsYears)

SpecAnalytics == InitAnalytics /\ [][NextAnalytics]_vars



(***************************************************************************)
(* The daily reminder: js/features.js, and init of js/app.js.  The clock   *)
(* has the local hour as well.  page is                                    *)
(*   open        a document of the application is open                     *)
(*   timers      the setInterval timers of the document, each TRUE while   *)
(*               its callback is still to run in the current clock hour    *)
(*   permission  Notification.permission                                   *)
(*   sent        the <<local day, local hour>> at which a Notification was *)
(*               created                                                   *)
(*   steady      history: since the clock hour began the document has been *)
(*               open, the reminder enabled, and today without entry       *)
(***************************************************************************)
\* new Date(): the instant of local hour c.hour of local day c.today
Now(c) == 24 * c.today - c.tz + c.hour

\* the "YYYY-MM-DD" of a local calendar day
LocalDateText(day) == ISODate(24 * day)

\* isReminderEnabled()
isReminderEnabled(p) == p.reminder = "true"

\* hour >= 20 && hour < 21
InReminderHour(hour) == hour >= 20 /\ hour < 21

\* shouldSendReminder(): today is now.toISOString().split('T')[0]
shouldSendReminder(st, c) ==
    IF InReminderHour(c.hour)
    THEN ~FindMood(getAllMoods(st).items, ISODate(Now(c))).found
    ELSE FALSE

\* canNotify()
canNotify(pg) == pg.permission = "granted"

\* the first day of the reminder's clock
ReminderStart == DateValue(Str("2024-02-27"))

ReminderDays == ReminderStart..(ReminderStart + MaxReminderDays - 1)

ReminderDates == {LocalDateText(day) : day \in ReminderDays}

Steady(st, p, pg, c) ==
    /\ pg.open
    /\ isReminderEnabled(p)
    /\ ~FindMood(getAllMoods(st).items, LocalDateText(c.today)).found

InitReminder ==
    /\ storage = Absent
    /\ mode = "ok"
    /\ reading = NotReading
    /\ ret = Returned("init", <<>>, <<>>)
    /\ clock \in [today : {ReminderStart}, tz : TimeZones, hour : {19}]
    /\ prefs = NoPrefs
    /\ page = [open |-> TRUE, timers |-> <<>>, permission |-> "default",
               sent |-> {}, steady |-> FALSE]

\* handleReminderToggle with the reminder off: enableReminder(), which asks
\* for the permission (the user's answer stays), stores the key and calls
\* scheduleReminder(): a timer whose callback first runs an hour later
EnableReminderCall ==
    \E answer \in {"granted", "denied"} :
        /\ page.open
        /\ ~isReminderEnabled(prefs)
        /\ Len(page.timers) < MaxTimers
        /\ LET permission == IF page.permission = "default" THEN answer
                             ELSE page.permission
               granted == permission = "granted"
               p == IF granted THEN [prefs EXCEPT !.reminder = "true"] ELSE prefs
               pg == [page EXCEPT !.permission = permission,
                                  !.timers = IF granted THEN Append(@, FALSE) ELSE @]
           IN /\ prefs' = p
              /\ page' = [pg EXCEPT !.steady = @ /\ Steady(storage, p, pg, clock)]
              /\ ret' = Returned("enableReminder", <<>>, granted)
        /\ UNCHANGED <<storage, mode, reading, clock>>

\* handleReminderToggle with the reminder on: disableReminder()
DisableReminderCall ==
    /\ page.open
    /\ isReminderEnabled(prefs)
    /\ prefs' = [prefs EXCEPT !.reminder = "null"]
    /\ page' = [page EXCEPT !.steady = FALSE]
    /\ ret' = Returned("disableReminder", <<>>, <<>>)
    /\ UNCHANGED <<storage, mode, reading, clock>>

\* the callback of one timer of scheduleReminder
ReminderTimerFires ==
    \E i \in 1..Len(page.timers) :
        /\ page.open
        /\ page.timers[i]
        /\ LET sends == isReminderEnabled(prefs) /\ shouldSendReminder(storage, clock)
                           /\ canNotify(page)
           IN page' = [page EXCEPT !.timers[i] = FALSE,
                                   !.sent = IF sends THEN @ \cup {<<clock.today, clock.hour>>}
                                            ELSE @]
        /\ UNCHANGED <<storage, mode, reading, ret, clock, prefs>>

\* An hour of the clock ends: every timer has run once in it, and is to run
\* once in the next.
HourPasses ==
    /\ \A i \in 1..Len(page.timers) : ~page.timers[i]
    /\ clock.today \in ReminderDays
    /\ LET c == IF clock.hour = 23
                THEN [clock EXCEPT !.hour = 0, !.today = @ + 1]
                ELSE [clock EXCEPT !.hour = @ + 1]
       IN /\ clock' = c
          /\ page' = [page EXCEPT !.timers = [i \in 1..Len(@) |-> TRUE],
                                  !.steady = Steady(storage, prefs, page, c)]
    /\ UNCHANGED <<storage, mode, reading, ret, prefs>>

\* the document is closed: its timers go with it
ClosePage ==
    /\ page.open
    /\ page' = [page EXCEPT !.open = FALSE, !.timers = <<>>, !.steady = FALSE]
    /\ UNCHANGED <<storage, mode, reading, ret, clock, prefs>>

\* the application is opened again: init(), which shows the state of the
\* reminder (updateReminderState) and schedules nothing
OpenPage ==
    /\ ~page.open
    /\ page' = [page EXCEPT !.open = TRUE]
    /\ UNCHANGED <<storage, mode, reading, ret, clock, prefs>>

\* handleSave for a day picked in the calendar
SaveDayCall ==
    \E date \in ReminderDates :
        /\ page.open
        /\ LET r == saveMood(storage, date, Happy, <<>>, NoTagsArg) IN
           /\ storage' = r.storage
           /\ ret' = [op |-> "saveMood",
                      args |-> [date |-> date, emoji |-> Happy, note |-> <<>>,
                                tags |-> NoTagsArg],
                      error |-> r.error, value |-> r.value]
           /\ page' = [page EXCEPT !.steady = @ /\ Steady(r.storage, prefs, page, clock)]
        /\ UNCHANGED <<mode, reading, clock, prefs>>

NextReminder ==
    \/ EnableReminderCall
    \/ DisableReminderCall
    \/ ReminderTimerFires
    \/ HourPasses
    \/ ClosePage
    \/ OpenPage
    \/ SaveDayCall

SpecReminder == InitReminder /\ [][NextReminder]_vars



(***************************************************************************)
(* Tagging: addTagToMood and removeTagFromMood on a store that saveMood    *)
(* and deleteMood change as well.                                          *)
(***************************************************************************)
TagArgs == {TagNames[i] : i \in 1..NumTagArgs}

AddTagToMoodCall(dates, tags) ==
    \E date \in dates, tag \in tags :
        /\ Idle
        /\ LET r == addTagToMood(storage, date, tag) IN
           /\ storage' = r.storage
           /\ ret' = [op |-> "addTagToMood", args |-> [date |-> date, tag |-> tag],
                      error |-> r.error, value |-> r.value]
        /\ UNCHANGED <<mode, reading, clock, prefs, page>>

RemoveTagFromMoodCall(dates, tags) ==
    \E date \in dates, tag \in tags :
        /\ Idle
        /\ LET r == removeTagFromMood(storage, date, tag) IN
           /\ storage' = r.storage
           /\ ret' = [op |-> "removeTagFromMood", args |-> [date |-> date, tag |-> tag],
                      error |-> r.error, value |-> r.value]
        /\ UNCHANGED <<mode, reading, clock, prefs, page>>

\* the two days whose entries are tagged
TaggedDates == {FirstDate, SecondDate}

NextTags ==
    \/ SaveMoodCall(TaggedDates, {Happy}, {<<>>}, {NoTagsArg})
    \/ AddTagToMoodCall(TaggedDates, TagArgs)
    \/ RemoveTagFromMoodCall(TaggedDates, TagArgs)
    \/ DeleteMoodCall(TaggedDates)

SpecTags == Init /\ [][NextTags]_vars



(***************************************************************************)
(* Two documents (tabs) on one localStorage.  saveMood reads the whole     *)
(* collection, changes its copy and writes the whole collection back;      *)
(* nothing orders the accesses of two documents, so the read of one may    *)
(* fall between the read and the write of the other.  page.tabs[t] is what *)
(* tab t is doing: seen is the collection it has read.  page.saved is      *)
(* history: the dates whose saveMood has returned, and no deleteMood since.*)
(***************************************************************************)
Tabs == {1, 2}

IdleTab == [busy |-> FALSE, date |-> <<>>, emoji |-> <<>>, seen |-> Absent]

TabCopy_OnlyNew(seen, date, emoji) == <<MoodEntry(date, emoji, <<>>, <<>>)>>

\* the copy a tab hands to saveMoods: what it read, with the entry put in
\* and sorted
TabCopy(seen, date, emoji) ==
    getAllMoods(saveMood(seen, date, emoji, <<>>, NoTagsArg).storage).items

InitTabs ==
    /\ storage = Absent
    /\ mode = "ok"
    /\ reading = NotReading
    /\ ret = Returned("init", <<>>, <<>>)
    /\ clock = [today |-> DateValue(SecondDate), tz |-> 0]
    /\ prefs = NoPrefs
    /\ page = [open |-> TRUE, tabs |-> [t \in Tabs |-> IdleTab], saved |-> {}]

\* saveMood(date, emoji) in tab t, up to const moods = getAllMoods()
TabReads(dates, emojis) ==
    \E t \in Tabs, date \in dates, emoji \in emojis :
        /\ ~page.tabs[t].busy
        /\ page' = [page EXCEPT !.tabs[t] = [busy |-> TRUE, date |-> date, emoji |-> emoji,
                                             seen |-> storage]]
        /\ UNCHANGED <<storage, mode, reading, ret, clock, prefs>>

\* the rest of saveMood in tab t: the entry put into the copy, the copy
\* sorted, saveMoods(moods)
TabWrites ==
    \E t \in Tabs :
        /\ page.tabs[t].busy
        /\ LET tab == page.tabs[t]
           IN /\ storage' = saveMoods(storage, TabCopy(tab.seen, tab.date, tab.emoji))
              /\ ret' = Returned("saveMood",
                                 [date |-> tab.date, emoji |-> tab.emoji, note |-> <<>>,
                                  tags |-> NoTagsArg],
                                 MoodEntry(tab.date, tab.emoji, <<>>,
                                           MoodTags(NoTagsArg, getAllMoods(tab.seen).items,
                                                    FindIndex(getAllMoods(tab.seen).items,
                                                              tab.date))))
              /\ page' = [page EXCEPT !.tabs[t] = IdleTab, !.saved = @ \cup {tab.date}]
        /\ UNCHANGED <<mode, reading, clock, prefs>>

\* deleteMood(date) in one task of a tab
TabDeletes(dates) ==
    \E t \in Tabs, date \in dates :
        /\ ~page.tabs[t].busy
        /\ storage' = saveMoods(storage, FilterOut(getAllMoods(storage).items, date))
        /\ ret' = Returned("deleteMood", [date |-> date], <<>>)
        /\ page' = [page EXCEPT !.saved = @ \ {date}]
        /\ UNCHANGED <<mode, reading, clock, prefs>>

NextTabs ==
    \/ TabReads(TaggedDates, Emojis)
    \/ TabWrites
    \/ TabDeletes(TaggedDates)

SpecTabs == InitTabs /\ [][NextTabs]_vars



(***************************************************************************)
(* The mood picker of js/app.js.  page is                                  *)
(*   selectedDate, selectedEmoji   the variables of app.js; <<>> is null   *)
(*   noteInput   the value of the textarea 'moodNote'                      *)
(*   timer       the timeout of debounce(handleSave, 500) is pending       *)
(*   typed       history: the date that was selected when the note was     *)
(*               last typed, the text typed, and whether a mood was        *)
(*               selected then                                             *)
(***************************************************************************)
NoSelection == <<>>

PickerEmojis == {PickerHappy, PickerSad}

TypedNotes == {<<"a">>, <<"b">>}

\* handleSave(): the storage afterwards
handleSave(st, pg) ==
    IF pg.selectedEmoji = NoSelection \/ pg.selectedDate = NoSelection THEN st
    ELSE saveMood(st, pg.selectedDate, pg.selectedEmoji, pg.noteInput, NoTagsArg).storage

\* loadMoodForDate(dateStr): the page afterwards
loadMoodForDate(st, pg, dateStr) ==
    LET mood == FindMood(getAllMoods(st).items, dateStr) IN
    IF mood.found
    THEN [pg EXCEPT !.selectedEmoji = mood.entry.emoji, !.noteInput = mood.entry.note]
    ELSE [pg EXCEPT !.selectedEmoji = NoSelection, !.noteInput = <<>>]

\* init(): selectedDate is today's date, loadMoodForDate(selectedDate)
InitPicker ==
    /\ storage = Absent
    /\ mode = "ok"
    /\ reading = NotReading
    /\ ret = Returned("init", <<>>, <<>>)
    /\ clock = [today |-> DateValue(SecondDate), tz |-> 0]
    /\ prefs = NoPrefs
    /\ page = loadMoodForDate(Absent,
                              [open |-> TRUE, selectedDate |-> ISODate(TodayMidnight(clock)),
                               selectedEmoji |-> NoSelection, noteInput |-> <<>>,
                               timer |-> FALSE,
                               typed |-> [date |-> NoSelection, note |-> <<>>,
                                          mood |-> FALSE]],
                              ISODate(TodayMidnight(clock)))

\* a click on a button of the mood grid: selectMood(emoji), which saves
SelectMood(emojis) ==
    \E emoji \in emojis :
        LET pg == [page EXCEPT !.selectedEmoji = emoji] IN
        /\ page' = pg
        /\ storage' = handleSave(storage, pg)
        /\ ret' = Returned("selectMood", [emoji |-> emoji], <<>>)
        /\ UNCHANGED <<mode, reading, clock, prefs>>

\* an input event of the textarea: the debounced handleSave is called,
\* which clears the pending timeout and sets a new one
TypeNote(notes) ==
    \E note \in notes :
        /\ page' = [page EXCEPT !.noteInput = note, !.timer = TRUE,
                                !.typed = [date |-> page.selectedDate, note |-> note,
                                           mood |-> page.selectedEmoji # NoSelection]]
        /\ ret' = Returned("input", [note |-> note], <<>>)
        /\ UNCHANGED <<storage, mode, reading, clock, prefs>>

\* the timeout of debounce fires: later(), which calls handleSave
DebounceFires ==
    /\ page.timer
    /\ page' = [page EXCEPT !.timer = FALSE]
    /\ storage' = handleSave(storage, page)
    /\ ret' = Returned("handleSave", <<>>, <<>>)
    /\ UNCHANGED <<mode, reading, clock, prefs>>

\* a click on a day of the calendar: handleDayClick(dateStr, moodData)
HandleDayClick(dates) ==
    \E dateStr \in dates :
        /\ page' = loadMoodForDate(storage, [page EXCEPT !.selectedDate = dateStr], dateStr)
        /\ ret' = Returned("handleDayClick", [date |-> dateStr], <<>>)
        /\ UNCHANGED <<storage, mode, reading, clock, prefs>>

NextPicker ==
    \/ SelectMood(PickerEmojis)
    \/ TypeNote(TypedNotes)
    \/ DebounceFires
    \/ HandleDayClick(TaggedDates)

SpecPicker == InitPicker /\ [][NextPicker]_vars



(***************************************************************************)
(* The theme: initTheme, setTheme, toggleTheme of js/features.js.  page is *)
(*   open       a document of the application is open                      *)
(*   theme      the attribute data-theme of the document; "null" is none   *)
(*   system     what the media query (prefers-color-scheme: dark) matches  *)
(*   listening  the 'change' listener of initTheme is registered           *)
(*   toggled    history: the user has clicked the theme toggle             *)
(***************************************************************************)
Themes == {"dark", "light"}

OtherTheme(theme) == IF theme = "dark" THEN "light" ELSE "dark"

\* localStorage.getItem(THEME_KEY), where localStorage answers
SavedTheme(p) == p.theme

\* setTheme(theme): [prefs, page, error]; setItem comes after setAttribute
setTheme(p, pg, theme) ==
    [page |-> [pg EXCEPT !.theme = theme],
     prefs |-> IF SetItemFails THEN p ELSE [p EXCEPT !.theme = theme],
     error |-> IF SetItemFails THEN "QuotaExceededError" ELSE "none"]

\* initTheme(): [prefs, page, error].  An exception of getItem or of
\* setTheme leaves the rest undone: the listener is not registered.
initTheme(p, pg) ==
    IF GetItemFails THEN [page |-> pg, prefs |-> p, error |-> "SecurityError"]
    ELSE LET saved == SavedTheme(p)
             theme == IF saved # "null" THEN saved ELSE pg.system
             r == setTheme(p, pg, theme)
         IN IF r.error # "none" THEN r
            ELSE [r EXCEPT !.page.listening = TRUE]

\* the listener of the media query: e.matches is the new preference
OnSystemChange(p, pg) ==
    IF GetItemFails THEN [page |-> pg, prefs |-> p, error |-> "SecurityError"]
    ELSE IF SavedTheme(p) = "null" THEN setTheme(p, pg, pg.system)
    ELSE [page |-> pg, prefs |-> p, error |-> "none"]

\* toggleTheme(): current is the attribute, or 'dark' where there is none
toggleTheme(p, pg) ==
    LET current == IF pg.theme = "null" THEN "dark" ELSE pg.theme
    IN setTheme(p, pg, OtherTheme(current))

ClosedPage(system, toggled) ==
    [open |-> FALSE, theme |-> "null", system |-> system, listening |-> FALSE,
     toggled |-> toggled]

InitThemes ==
    /\ storage = Absent
    /\ mode = "ok"
    /\ reading = NotReading
    /\ ret = Returned("init", <<>>, <<>>)
    /\ clock = [today |-> DateValue(SecondDate), tz |-> 0]
    /\ prefs = NoPrefs
    /\ page \in {ClosedPage(system, FALSE) : system \in Themes}

\* the application is opened: init() calls initTheme()
InitThemeCall ==
    /\ ~page.open
    /\ LET r == initTheme(prefs, [page EXCEPT !.open = TRUE]) IN
       /\ page' = r.page
       /\ prefs' = r.prefs
       /\ ret' = [op |-> "initTheme", args |-> <<>>, error |-> r.error, value |-> <<>>]
    /\ UNCHANGED <<storage, mode, reading, clock>>

\* a click on the theme toggle
ToggleThemeCall ==
    /\ page.open
    /\ LET r == toggleTheme(prefs, [page EXCEPT !.toggled = TRUE]) IN
       /\ page' = r.page
       /\ prefs' = r.prefs
       /\ ret' = [op |-> "toggleTheme", args |-> <<>>, error |-> r.error, value |-> <<>>]
    /\ UNCHANGED <<storage, mode, reading, clock>>

\* the system's colour scheme changes; the listener runs where a document
\* has registered it
SystemThemeChanges ==
    LET pg == [page EXCEPT !.system = OtherTheme(@)]
        r == IF pg.listening THEN OnSystemChange(prefs, pg)
             ELSE [page |-> pg, prefs |-> prefs, error |-> "none"]
    IN /\ page' = r.page
       /\ prefs' = r.prefs
       /\ ret' = [op |-> "change", args |-> [matches |-> pg.system = "dark"],
                  error |-> r.error, value |-> <<>>]
       /\ UNCHANGED <<storage, mode, reading, clock>>

\* the document is closed: its attribute and its listener go with it
ClosesThemedPage ==
    /\ page.open
    /\ page' = ClosedPage(page.system, page.toggled)
    /\ ret' = Returned("close", <<>>, <<>>)
    /\ UNCHANGED <<storage, mode, reading, clock, prefs>>

NextThemes ==
    \/ InitThemeCall
    \/ ToggleThemeCall
    \/ SystemThemeChanges
    \/ ClosesThemedPage
    \/ StorageModeChanges

SpecThemes == InitThemes /\ [][NextThemes]_vars



(***************************************************************************)
(* Properties                                                              *)
(***************************************************************************)
\* what getAllMoods() returns in the current state, when it is a sequence
Items == getAllMoods(storage).items

DatesOf(moods) == {moods[i].date : i \in 1..Len(moods)}

\* t is raw without the white space at its two ends
IsTrimOf(t, raw) ==
    /\ t = <<>> \/ (t[1] \notin Whitespace /\ t[Len(t)] \notin Whitespace)
    /\ \E i \in 0..Len(raw) :
          /\ i + Len(t) <= Len(raw)
          /\ SubSeq(raw, i + 1, i + Len(t)) = t
          /\ \A k \in 1..Len(raw) : (k <= i \/ k > i + Len(t)) => raw[k] \in Whitespace

\* C1: a saveMood(date, emoji, note, tags) step adds date to the dates of the
\* collection and nothing else, leaves exactly one entry per date, and
\* getMood(date) then returns the emoji, the trimmed note and the tags of
\* this save; the entries of the other dates stay what their last save made
\* them.  From the empty store, this gives one entry per saved date, each
\* holding the values of its most recent save.
C1_OneEntryPerDateWithLatestValues ==
    [][ret'.op = "saveMood" =>
        LET before == getAllMoods(storage).items
            after == getAllMoods(storage').items
            a == ret'.args
            got == FindMood(after, a.date)
        IN /\ ret'.error = "none"
           /\ DatesOf(after) = DatesOf(before) \cup {a.date}
           /\ Len(after) = Cardinality(DatesOf(after))
           /\ got.found
           /\ got.entry.emoji = a.emoji
           /\ IsTrimOf(got.entry.note, a.note)
           /\ a.tags.given => got.entry.tags = a.tags.value
           /\ \A d \in DatesOf(before) \ {a.date} :
                 FindMood(after, d) = FindMood(before, d)
       ]_vars

\* Both dates are stored, and the last save overwrote nothing by accident:
\* it gave tags and a note with blanks around it.
C1_Witness ==
    /\ ret.op = "saveMood"
    /\ ret.args.tags.given
    /\ ret.args.note # ret.value.note
    /\ Len(Items) = 2

\* one calendar day is before another
EarlierDay(a, b) ==
    LET x == DateYMD(a[1])
        y == DateYMD(b[1])
    IN \/ x[1] < y[1]
       \/ x[1] = y[1] /\ x[2] < y[2]
       \/ x[1] = y[1] /\ x[2] = y[2] /\ x[3] < y[3]

\* C2: whatever saveMood, deleteMood, clearAll and importFromCSV calls were
\* made, in whatever order of dates, no entry of getAllMoods() comes before
\* an entry of a later date.
C2_SortedByDateDescending ==
    \A i, j \in 1..Len(Items) : i < j => ~EarlierDay(Items[i].date, Items[j].date)

\* An import of two rows has just run and the collection has three or more
\* entries, the first dates of DateList (which are not in date order) among them.
C2_Witness ==
    /\ ret.op = "importFromCSV"
    /\ ret.value = 2
    /\ Len(Items) >= 3
    /\ {Str(DateList[1]), Str(DateList[2]), Str(DateList[3])} \subseteq DatesOf(Items)

\* C3: after a saveMood step the entry's tags are the tags argument when one
\* was given; without one they are the tags the date's entry had before, or
\* the empty sequence when the date had no entry.
C3_TagsKeptUnlessGiven ==
    [][ret'.op = "saveMood" =>
        LET a == ret'.args
            old == FindMood(getAllMoods(storage).items, a.date)
            new == FindMood(getAllMoods(storage').items, a.date)
        IN /\ new.found
           /\ a.tags.given => new.entry.tags = a.tags.value
           /\ (~a.tags.given /\ old.found) => new.entry.tags = old.entry.tags
           /\ (~a.tags.given /\ ~old.found) => new.entry.tags = <<>>
       ]_vars

\* A save without a tags argument has left the entry with the tag it had.
C3_Witness ==
    /\ ret.op = "saveMood"
    /\ ~ret.args.tags.given
    /\ ret.value.tags = <<"work">>
    /\ ret.value.emoji = Sad

\* seq without its element at position i (all of seq when i = 0)
Without(seq, i) ==
    IF i = 0 THEN seq ELSE SubSeq(seq, 1, i - 1) \o SubSeq(seq, i + 1, Len(seq))

\* C4: a deleteMood(date) step raises nothing; afterwards getAllMoods() is
\* what it was before with the entry of that date taken out, the other
\* entries unchanged and in the same order, and is the same as before when
\* the date had no entry.
C4_DeleteRemovesOnlyThatDate ==
    [][ret'.op = "deleteMood" =>
        LET before == getAllMoods(storage).items
            after == getAllMoods(storage').items
            date == ret'.args.date
        IN /\ ret'.error = "none"
           /\ ~FindMood(after, date).found
           /\ after = Without(before, FindIndex(before, date))
       ]_vars

\* A delete has run and an entry with a tag and a note is still there.
C4_Witness ==
    /\ ret.op = "deleteMood"
    /\ Len(Items) = 1
    /\ Items[1].tags = <<"work">>
    /\ Items[1].note # <<>>
    /\ Items[1].date # ret.args.date

\* C5: whatever the key holds, getAllMoods() raises nothing and returns a
\* sequence, empty unless the key holds a stored collection, and getMood,
\* saveMood and deleteMood raise nothing.
C5_CorruptStorageReadsAsEmpty ==
    /\ ret.op = "getAllMoods" =>
          /\ ret.error = "none"
          /\ ret.value.kind = "array"
          /\ storage.kind # "array" => ret.value.items = <<>>
    /\ ret.op \in {"getMood", "saveMood", "deleteMood"} => ret.error = "none"

\* C6: a store call during which a localStorage access fails completes
\* without an error and leaves the key as it was.
C6_StorageFailureNotPropagated ==
    [][(/\ mode' = mode
        /\ \/ mode = "disabled"
           \/ /\ mode = "quota"
              /\ ret'.op \in {"saveMood", "deleteMood"}
              /\ getAllMoods(storage).kind = "array")
       => (ret'.error = "none" /\ storage' = storage)
      ]_vars

Triples(moods) == {<<moods[i].date, moods[i].emoji, moods[i].note>> : i \in 1..Len(moods)}

\* C7: for the collection of every reachable state, importing its export
\* into the cleared store gives the same (date, emoji, note) triples.
C7_ExportImportRoundTrip ==
    storage.kind \in {"absent", "array"} =>
        LET csv == exportToCSV(storage).value
            imported == importFromCSV(clearAll(storage).storage, csv)
        IN Triples(getAllMoods(imported.storage).items) = Triples(Items)

\* s with every pair of double quotes made one; a double quote with no
\* partner becomes a mark no note contains
RECURSIVE Collapse(_)
Collapse(s) ==
    IF s = <<>> THEN <<>>
    ELSE IF Head(s) # Quote THEN <<Head(s)>> \o Collapse(Tail(s))
    ELSE IF Len(s) >= 2 /\ s[2] = Quote THEN <<Quote>> \o Collapse(SubSeq(s, 3, Len(s)))
    ELSE <<"unpaired">> \o Collapse(Tail(s))

\* row is date,emoji,"body" with date and emoji bare and body the note with
\* its double quotes doubled
IsRowOf(row, m) ==
    LET bare == m.date \o <<",">> \o m.emoji \o <<",">>
        n == Len(bare)
    IN /\ Len(row) >= n + 2
       /\ SubSeq(row, 1, n) = bare
       /\ row[n + 1] = Quote
       /\ row[Len(row)] = Quote
       /\ Collapse(SubSeq(row, n + 2, Len(row) - 1)) = m.note

\* C8: exportToCSV() returns the empty text for the empty collection, and
\* otherwise the line Date,Emoji,Note followed by one line per entry of
\* getAllMoods(), in that order, each date,emoji,"note" with the note's
\* double quotes doubled.  (No note of Spec holds a line break, so a row is
\* a line.)
C8_ExportFormat ==
    ret.op = "exportToCSV" =>
        /\ ret.error = "none"
        /\ Items = <<>> => ret.value = <<>>
        /\ Items # <<>> =>
              LET lines == Split(ret.value, "\n") IN
              /\ Len(lines) = Len(Items) + 1
              /\ lines[1] = HeaderRow
              /\ \A i \in 1..Len(Items) : IsRowOf(lines[i + 1], Items[i])

\* An export of two entries, one of them with a double quote in its note.
C8_Witness ==
    /\ ret.op = "exportToCSV"
    /\ Len(Items) = 2
    /\ \E i \in 1..2 : \E k \in 1..Len(Items[i].note) : Items[i].note[k] = Quote
    /\ \E i \in 1..2 : Items[i].note = <<>>

FormatErrors == {NoDataRowsError, MissingColumnsError}

\* the header line of csv has no column called name, whatever the case
LacksColumn(csv, name) ==
    LET columns == Split(ToLowerCase(Split(Trim(csv), "\n")[1]), ",")
    IN \A i \in 1..Len(columns) : Trim(columns[i]) # name

\* C9: the import of a text whose header has no emoji column, or no date
\* column, fails with a format error.
C9_MissingColumnIsFormatError ==
    [][(/\ reading.busy
        /\ ~reading'.busy
        /\ LacksColumn(reading.text, EmojiWord) \/ LacksColumn(reading.text, DateWord))
       => ret'.error \in FormatErrors
      ]_vars

\* csv, trimmed, has no line break: fewer than two lines
FewerThanTwoLines(csv) ==
    LET t == Trim(csv) IN \A i \in 1..Len(t) : t[i] # "\n"

\* C10: the import of a text that has fewer than two lines once trimmed fails
\* with a format error and returns no count (and, failing, saves nothing).
C10_NoDataRowsIsFormatError ==
    [][(/\ reading.busy
        /\ ~reading'.busy
        /\ FewerThanTwoLines(reading.text))
       => (/\ ret'.op = "importFromCSV"
           /\ ret'.error \in FormatErrors
           /\ storage' = storage)
      ]_vars

\* An import has failed for want of data rows, over a store that has an entry.
C10_Witness ==
    /\ ret.op = "importFromCSV"
    /\ ret.error = NoDataRowsError
    /\ Len(Items) = 1

\* the data lines of csv that are not blank, in order
DataLines(csv) ==
    SelectSeq(Tail(Split(Trim(csv), "\n")), LAMBDA l : Trim(l) # <<>>)

\* the fields of a data line under the header's date, emoji and note columns
\* (undefined where the line has no such field); the note without the
\* quotes around it
RowOf(csv, line) ==
    LET headers == HeaderNames(ToLowerCase(Split(Trim(csv), "\n")[1]))
        values == parseCSVLine(Trim(line))
        note == ValueAt(values, IndexOf(headers, NoteWord))
    IN [date |-> ValueAt(values, IndexOf(headers, DateWord)),
        emoji |-> ValueAt(values, IndexOf(headers, EmojiWord)),
        note |-> IF note.defined THEN StripOuterQuotes(note.s) ELSE <<>>]

RowsOf(csv) == LET ls == DataLines(csv) IN [i \in 1..Len(ls) |-> RowOf(csv, ls[i])]

\* C11: a successful import is a merge.  An entry whose date is the date
\* field of no data row is after the import what it was before, and no such
\* entry appears; every date of a saved row has afterwards the emoji and the
\* note of the last saved row of that date.
C11_ImportMerges ==
    [][(/\ reading.busy
        /\ ~reading'.busy
        /\ ret'.error = "none")
       => LET rows == RowsOf(reading.text)
              saved == SelectSeq(rows, LAMBDA r : RowAccepted(r.date, r.emoji))
              before == getAllMoods(storage).items
              after == getAllMoods(storage').items
              Untouched(m) == \A k \in 1..Len(rows) : rows[k].date.s # m.date
          IN /\ \A i \in 1..Len(before) :
                    Untouched(before[i]) => \E j \in 1..Len(after) : after[j] = before[i]
             /\ \A j \in 1..Len(after) :
                    Untouched(after[j]) => \E i \in 1..Len(before) : before[i] = after[j]
             /\ \A k \in 1..Len(saved) :
                    (\A l \in (k + 1)..Len(saved) : saved[l].date # saved[k].date) =>
                        LET m == FindMood(after, saved[k].date.s) IN
                        /\ m.found
                        /\ m.entry.emoji = saved[k].emoji.s
                        /\ m.entry.note = saved[k].note
                        /\ Len(SelectSeq(after, LAMBDA e : e.date = saved[k].date.s)) = 1
      ]_vars

\* An import of two saved rows of one date, over a store whose only entry
\* has another date: the entry is kept, the second row's values are stored.
C11_Witness ==
    /\ ret.op = "importFromCSV"
    /\ ret.error = "none"
    /\ ret.value = 2
    /\ Len(Items) = 2
    /\ FindMood(Items, FirstDate).found
    /\ FindMood(Items, FirstDate).entry.note = <<"z">>
    /\ FindMood(Items, SecondDate).found

\* the claim's condition on a data row: a date field and an emoji field,
\* neither empty, the date a day of the calendar
ShouldBeSaved(r) ==
    /\ r.date.defined /\ r.date.s # <<>>
    /\ r.emoji.defined /\ r.emoji.s # <<>>
    /\ IsCalendarDate(r.date.s)

\* C12: a successful import saves exactly the data rows whose date and emoji
\* fields are not empty and whose date is a calendar date, skips the others,
\* and returns the number of rows it saved.
C12_SavedRowsAndCount ==
    [][(/\ reading.busy
        /\ ~reading'.busy
        /\ ret'.error = "none")
       => LET rows == RowsOf(reading.text)
              after == getAllMoods(storage').items
          IN /\ ret'.value = Len(SelectSeq(rows, ShouldBeSaved))
             /\ \A k \in 1..Len(rows) :
                    ShouldBeSaved(rows[k]) => rows[k].date.s \in DatesOf(after)
             /\ \A j \in 1..Len(after) :
                    \/ after[j].date \in DatesOf(getAllMoods(storage).items)
                    \/ \E k \in 1..Len(rows) :
                          ShouldBeSaved(rows[k]) /\ rows[k].date.s = after[j].date
      ]_vars

\* the entries of moods dated in the month (0 for January) of the year
EntriesOfMonth(moods, year, month) ==
    SelectSeq(moods, LAMBDA m :
        DateYMD(m.date[1])[1] = year /\ DateYMD(m.date[1])[2] = month + 1)

\* emoji has the highest count in moods and, of the emoji with that count,
\* is the one met first in moods
IsFirstMostCommon(moods, emoji) ==
    \E i \in 1..Len(moods) :
        /\ moods[i].emoji = emoji
        /\ \A j \in 1..Len(moods) : CountOf(moods, moods[j].emoji) <= CountOf(moods, emoji)
        /\ \A j \in 1..(i - 1) : CountOf(moods, moods[j].emoji) < CountOf(moods, emoji)

\* C13: getMostCommonMood(year, month) returns null when the month has no
\* entry, and otherwise an emoji of the month's entries with the highest
\* count, the one met first in the month's entries when several have it.
C13_MostCommonMood ==
    ret.op = "getMostCommonMood" =>
        LET monthMoods == EntriesOfMonth(Items, ret.args.year, ret.args.month) IN
        /\ monthMoods = <<>> => ~ret.value.found
        /\ monthMoods # <<>> =>
              ret.value.found /\ IsFirstMostCommon(monthMoods, ret.value.emoji)

\* the calendar days (counted from 1970-01-01) that have an entry
DaysOf(moods) == {DateValue(moods[i].date) : i \in 1..Len(moods)}

\* the day of the most recent entry
LatestDay(moods) == CHOOSE d \in DaysOf(moods) : \A e \in DaysOf(moods) : e <= d

\* C14: getCurrentStreak() is at least 1 exactly when the most recent entry
\* is dated today or yesterday by the clock's calendar date, and 0 for every
\* other collection, the empty one included.
C14_CurrentStreakActive ==
    ret.op = "getCurrentStreak" =>
        IF Items # <<>> /\ LatestDay(Items) \in {clock.today, clock.today - 1}
        THEN ret.value >= 1
        ELSE ret.value = 0

\* the number of days of the unbroken run of days of S that ends at day d
RECURSIVE RunEndingAt(_, _)
RunEndingAt(S, d) == IF d \in S THEN 1 + RunEndingAt(S, d - 1) ELSE 0

\* C15: when the most recent entry is dated today or yesterday,
\* getCurrentStreak() is the length of the longest run of consecutive days
\* with an entry that ends at the most recent entry.
C15_CurrentStreakLength ==
    (/\ ret.op = "getCurrentStreak"
     /\ Items # <<>>
     /\ LatestDay(Items) \in {clock.today, clock.today - 1})
    => ret.value = RunEndingAt(DaysOf(Items), LatestDay(Items))

\* C16: getLongestStreak() is 0 for the empty collection and otherwise the
\* length, at least 1, of the longest run of consecutive days with an entry;
\* two entries of one day count as that one day.
C16_LongestStreak ==
    ret.op = "getLongestStreak" =>
        /\ Items = <<>> => ret.value = 0
        /\ Items # <<>> =>
              /\ ret.value >= 1
              /\ \E d \in DaysOf(Items) : RunEndingAt(DaysOf(Items), d) = ret.value
              /\ \A d \in DaysOf(Items) : RunEndingAt(DaysOf(Items), d) <= ret.value

\* Two entries of one day inside a run of three days, the longest, with a
\* run of two days before it.
C16_Witness ==
    /\ ret.op = "getLongestStreak"
    /\ ret.value = 3
    /\ Cardinality(DaysOf(Items)) = 5
    /\ \E i, j \in 1..Len(Items) : i # j /\ DateValue(Items[i].date) = DateValue(Items[j].date)

\* the YYYY-MM-DD text of a calendar day counted from 1970-01-01
TextOfDay(day) ==
    Str(CHOOSE atom \in {DateList[i] : i \in 1..Len(DateList)} :
            DaysFromCivil(DateYMD(atom)[1], DateYMD(atom)[2], DateYMD(atom)[3]) = day)

\* C17: getTrendData(N) returns N points, one for each calendar day in
\* ascending order, the last one for today's calendar date; a point of a
\* date without entry has value and emoji null, a point of a date with an
\* entry has the entry's emoji and its value in emojiToValue (1 to 5), or 3
\* for an emoji that is not in that table.
C17_TrendData ==
    ret.op = "getTrendData" =>
        LET N == ret.args.days IN
        /\ Len(ret.value) = N
        /\ \A k \in 1..N :
              LET point == ret.value[k]
                  mood == FindMood(Items, point.date)
              IN /\ point.date = TextOfDay(clock.today - (N - k))
                 /\ point.has = mood.found
                 /\ mood.found =>
                       /\ point.emoji = mood.entry.emoji
                       /\ point.value \in 1..5
                       /\ mood.entry.emoji = Happy => point.value = 4
                       /\ mood.entry.emoji = CustomEmoji => point.value = 3

TypesOf(insights) == {insights[i].type : i \in 1..Len(insights)}

CalendarWeekday(date) == WEEKDAYS[((DateValue(date) + 4) % 7) + 1]

EntriesOn(moods, day) == SelectSeq(moods, LAMBDA m : CalendarWeekday(m.date) = day)

\* the weekdays with at least two entries
Qualifying(moods) ==
    {WEEKDAYS[i] : i \in {k \in 1..7 : Len(EntriesOn(moods, WEEKDAYS[k])) >= 2}}

\* the average mood value of weekday a is less than that of weekday b
LowerAverage(moods, a, b) ==
    SumValues(EntriesOn(moods, a)) * Len(EntriesOn(moods, b))
        < SumValues(EntriesOn(moods, b)) * Len(EntriesOn(moods, a))

\* C19: of the insights of 7 or more entries, 'positive' names a weekday
\* with at least two entries whose average mood value no other such weekday
\* exceeds, and is there whenever a weekday has two entries; 'info' is
\* there exactly when those weekdays do not all have the same average, and
\* names one of them with the lowest average.
C19_BestAndWorstWeekday ==
    (ret.op = "generateWeeklyInsights" /\ Len(Items) >= 7) =>
        LET Q == Qualifying(Items)
            Named(type) == {ret.value[i].day : i \in {k \in 1..Len(ret.value) :
                                                        ret.value[k].type = type}}
        IN /\ Named("positive") # {} <=> Q # {}
           /\ \A day \in Named("positive") :
                 day \in Q /\ \A other \in Q : ~LowerAverage(Items, day, other)
           /\ Named("info") # {} <=> \E a, b \in Q : LowerAverage(Items, a, b)
           /\ \A day \in Named("info") :
                 day \in Q /\ \A other \in Q : ~LowerAverage(Items, other, day)

\* the entries of moods dated in the year
EntriesOfYear(moods, year) == SelectSeq(moods, LAMBDA m : DateYMD(m.date[1])[1] = year)

RECURSIVE SumCounts(_)
SumCounts(months) == IF months = <<>> THEN 0 ELSE Head(months).count + SumCounts(Tail(months))

\* C20: getYearReview(year) returns 12 month records, each with the number
\* of entries dated in that month of the year and, as emoji, null for none
\* and otherwise the emoji with the highest count among them, the one met
\* first when several have it; totalEntries is the number of entries dated
\* in the year and the sum of the 12 counts; topEmoji is an emoji of the
\* highest count among the year's entries.
C20_YearReview ==
    ret.op = "getYearReview" =>
        LET review == ret.value
            yearMoods == EntriesOfYear(Items, ret.args.year)
        IN /\ Len(review.months) = 12
           /\ \A k \in 1..12 :
                 LET monthMoods == EntriesOfMonth(Items, ret.args.year, k - 1) IN
                 /\ review.months[k].count = Len(monthMoods)
                 /\ monthMoods = <<>> => ~review.months[k].emoji.found
                 /\ monthMoods # <<>> =>
                       /\ review.months[k].emoji.found
                       /\ IsFirstMostCommon(monthMoods, review.months[k].emoji.emoji)
           /\ review.totalEntries = Len(yearMoods)
           /\ review.totalEntries = SumCounts(review.months)
           /\ yearMoods # <<>> =>
                 /\ review.topEmoji.found
                 /\ CountOf(yearMoods, review.topEmoji.emoji) > 0
                 /\ \A j \in 1..Len(yearMoods) :
                       CountOf(yearMoods, yearMoods[j].emoji)
                           <= CountOf(yearMoods, review.topEmoji.emoji)

\* C21: getMoodsForMonth(year, month) returns the entries whose date text
\* has that year and that month (0 for January), in the order of
\* getAllMoods(), whatever the day of the month.
C21_MoodsForMonth ==
    ret.op = "getMoodsForMonth" =>
        ret.value = EntriesOfMonth(Items, ret.args.year, ret.args.month)


AnalyticsOps ==
    {"getMostCommonMood", "getCurrentStreak", "getLongestStreak", "getTotalEntries",
     "getTrendData", "getAllTags", "getPopularTags", "generateWeeklyInsights",
     "getMoodPatterns", "getYearReview"}

C23_ReminderAtEight ==
    [][(clock.hour = 20 /\ clock'.hour = 21 /\ page.steady)
          => <<clock.today, 20>> \in page.sent]_vars


\* tags has no tag twice
NoDuplicateTag(tags) == \A i, j \in 1..Len(tags) : tags[i] = tags[j] => i = j

\* the entries of moods other than the one of date are those of before
OthersKept(before, after, date) == FilterOut(after, date) = FilterOut(before, date)

TagsOf(moods, date) == FindMood(moods, date).entry.tags

\* C24: no entry ever has a tag twice; addTagToMood puts a new tag after the
\* tags of the entry and changes nothing when the entry has the tag already;
\* removeTagFromMood takes the tag out and keeps the order of the others;
\* either call on a date without entry returns null and changes nothing.
C24_TagsStayASet ==
    [][LET before == Items
           after == getAllMoods(storage').items
           date == ret'.args.date
           tag == ret'.args.tag
       IN /\ \A i \in 1..Len(after) : NoDuplicateTag(after[i].tags)
          /\ ret'.op \in {"addTagToMood", "removeTagFromMood"} =>
                IF ~FindMood(before, date).found
                THEN ret'.value.isNull /\ storage' = storage
                ELSE /\ ~ret'.value.isNull
                     /\ OthersKept(before, after, date)
                     /\ ret'.value.tags = TagsOf(after, date)
                     /\ IF ret'.op = "removeTagFromMood"
                        THEN TagsOf(after, date)
                                = SelectSeq(TagsOf(before, date), LAMBDA t : t # tag)
                        ELSE IF TagsInclude(TagsOf(before, date), tag)
                        THEN storage' = storage
                        ELSE TagsOf(after, date) = Append(TagsOf(before, date), tag)]_vars

C24_Witness ==
    /\ ret.op = "addTagToMood"
    /\ ~ret.value.isNull
    /\ Len(ret.value.tags) = 2
    /\ \E i \in 1..Len(Items) : Items[i].date # ret.args.date /\ Len(Items[i].tags) = 2


\* the entries of moods that carry tag
Carrying(moods, tag) == {i \in 1..Len(moods) : TagsInclude(moods[i].tags, tag)}

AllTagsOf(moods) == UNION {{moods[i].tags[k] : k \in 1..Len(moods[i].tags)} : i \in 1..Len(moods)}

C27_FailedImportSavesNothing ==
    [][(/\ reading.busy
        /\ ~reading'.busy
        /\ ret'.op = "importFromCSV"
        /\ ret'.error \in FormatErrors)
       => storage' = storage]_vars

\* An import has failed for want of a column, over a store that has an entry.
C27_Witness ==
    /\ ret.op = "importFromCSV"
    /\ ret.error = MissingColumnsError
    /\ Len(Items) >= 1


\* C28: for every collection and clock, what getCurrentStreak() returns is
\* at most what getLongestStreak() returns, which is at most what
\* getTotalEntries() returns.
C28_StreaksOrdered ==
    /\ ret.op = "getCurrentStreak" => ret.value <= getLongestStreak(Items)
    /\ ret.op = "getLongestStreak" =>
          /\ getCurrentStreak(Items, clock) <= ret.value
          /\ ret.value <= getTotalEntries(Items)

\* a current run of two days, shorter than the longest run, which is shorter
\* than the collection
C28_Witness ==
    /\ ret.op = "getCurrentStreak"
    /\ ret.value = 2
    /\ getLongestStreak(Items) > 2
    /\ getTotalEntries(Items) > getLongestStreak(Items)


\* tab t writes, and the store is still the collection it read
WritesUninterrupted(t) ==
    /\ page.tabs[t].busy
    /\ ~page'.tabs[t].busy
    /\ page.tabs[t].seen = storage

\* C25: a saveMood that nothing interleaves with (the store at its write is
\* the store it read) loses no entry: the entry of its date has its emoji,
\* the entries of the other dates are those of before.  (That an entry is
\* lost when two tabs interleave is the state C25_Witness.)
C25_NoLossWithoutInterleaving ==
    [][\A t \in Tabs :
          WritesUninterrupted(t) =>
             LET after == getAllMoods(storage').items
                 date == page.tabs[t].date
             IN /\ FilterOut(after, date) = FilterOut(Items, date)
                /\ FindMood(after, date).found
                /\ FindMood(after, date).entry.emoji = page.tabs[t].emoji
                /\ Len(SelectSeq(after, LAMBDA m : m.date = date)) = 1]_vars

\* Both tabs have saved, each its date, nothing was deleted, both are idle,
\* and the entry one of them saved is absent from getAllMoods().
C25_Witness ==
    /\ \A t \in Tabs : ~page.tabs[t].busy
    /\ page.saved = TaggedDates
    /\ \E date \in page.saved : ~FindMood(Items, date).found


\* C29: when the timeout set by typing a note fires, a mood having been
\* selected for the date A that was selected at the typing, A's entry has the
\* note that was typed, also when another day was clicked in between; and
\* the entries of the other dates are what they were.
C29_TypedNoteReachesItsDate ==
    [][(page.timer /\ ~page'.timer /\ page.typed.mood)
          => LET after == getAllMoods(storage').items
                 A == page.typed.date
             IN /\ FindMood(after, A).found
                /\ FindMood(after, A).entry.note = Trim(page.typed.note)
                /\ FilterOut(after, A) = FilterOut(Items, A)]_vars


\* C30: when the system's colour scheme changes while the application is
\* open after initTheme, the applied theme becomes the system's if the user
\* has never toggled the theme, and stays what it was if the user has.
C30_ThemeFollowsSystem ==
    [][(page.open /\ page'.open /\ page'.system # page.system)
          => IF page.toggled THEN page'.theme = page.theme
             ELSE page'.theme = page'.system]_vars

====
